---- MODULE Spec2Model ----
(***************************************************************************)
(* Albert (YouTube transcript extractor, React client).                    *)
(*                                                                         *)
(* Part 1: the credential life cycle of src/src/contexts/AuthContext.jsx   *)
(*         (AuthProvider: init effect, saveAuthData, clearAuthStorage,     *)
(*         login, logout, getAccessToken).                                 *)
(* Part 2: the retrying extraction call of src/unnamed/part_005            *)
(*         (makeRequest, extractTranscript).                               *)
(*                                                                         *)
(* React state is modelled by its latest value; a getAccessToken closure   *)
(* sees the state of the render it was created in, which is the snapshot   *)
(* snap[c] a caller took at its last Render (React 18 batches the state    *)
(* updates of one continuation into one render).                           *)
(***************************************************************************)
EXTENDS Integers, Sequences, FiniteSets, TLC

(***************************************************************************)
(* Bounds of the model                                                     *)
(***************************************************************************)
NumCallers == 2    \* components that call getAccessToken concurrently
StartNow == 60     \* clock (seconds) at mount
TickStep == 30     \* seconds per clock step
MaxNow == 120      \* last clock value explored
MaxPair == 3       \* token pairs issued by the server, stored pair included
AccessTTL == 90    \* lifetime (s) of an access token the server issues
RefreshTTL == 60   \* lifetime (s) of a refresh token the server issues

Callers == 1..NumCallers

\* expiry claims (seconds) of the tokens found in storage at mount
StoredAccessExp == {30, 150}
StoredRefreshExp == {30, 120}

(***************************************************************************)
(* Tokens.  A token is the pair it was issued in and its exp claim.        *)
(***************************************************************************)
Null == [pair |-> 0, exp |-> 0]

Token(p, e) == [pair |-> p, exp |-> e]

\* the diagnostic functions of services/api.js
Probes == {"checkConnectivity", "checkHealth", "checkApiAuth"}

\* a call that has not settled: no outcome awaited yet, no value returned
NoOutcome == [kind |-> "none", status |-> 0]

NoProbeResult == [settled |-> "pending", ok |-> FALSE, status |-> 0, error |-> "none"]

VARIABLES
  now,               \* Date.now() / 1000
  loggedOut,         \* logout was called and no login or register since
  accessToken,       \* useState accessToken
  refreshTokenValue, \* useState refreshTokenValue
  user,              \* useState user: 0 null, 1 a profile
  isLoading,         \* useState isLoading
  isRefreshing,      \* useState isRefreshing
  lsAccess,          \* localStorage albert_access_token
  lsRefresh,         \* localStorage albert_refresh_token
  lsUser,            \* localStorage albert_user: 0 absent, 1 profile, 2 not JSON
  nextPair,          \* next pair number the auth server issues
  pc,                \* per caller: position in getAccessToken
  snap,              \* per caller: the state its getAccessToken closure sees
  result,            \* per caller: value the last call resolved with
  posts,             \* per caller: POST /auth/refresh issued by the last call
  xpc,               \* position in extractTranscript
  onRetry,           \* extractTranscript was given an onRetry callback
  attempt,           \* loop variable of extractTranscript
  lastError,         \* lastError of extractTranscript; the error it throws
  notifications,     \* arguments of the onRetry calls made, in order
  delays,            \* delay(ms) calls made, in order
  outcomes,          \* outcomes of the network attempts made, in order
  xresult,           \* value extractTranscript resolved with
  withAuth,          \* extractTranscript was given getAccessToken
  headers,           \* headers of the POST /api/v1/extract requests sent, in order
  tokenCalls,        \* getAccessToken calls made by makeRequest
  tokenFailed,       \* makeRequest caught a throw of getAccessToken
  status,            \* useState status: idle, loading, success, error
  url,               \* useState url
  format,            \* useState format
  transcript,        \* useState transcript: the variant displayed
  allTranscripts,    \* useState allTranscripts: the cached variants
  availableLanguages, \* useState availableLanguages
  selectedLanguage,  \* useState selectedLanguage
  videoId,           \* useState videoId: 0 null, else the submission it came from
  thumbnailUrl,      \* useState thumbnailUrl, likewise
  videoMetadata,     \* useState videoMetadata, likewise
  transcriptId,      \* useState transcriptId, likewise
  isSaved,           \* useState isSaved
  error,             \* useState error
  errorType,         \* useState errorType
  retryInfo,         \* useState retryInfo
  subCount,          \* handleSubmit calls made
  inflight,          \* submissions whose extractTranscript has not settled
  live,              \* the submission the state belongs to; 0 after a reset
  loading,           \* HomePage useState loading
  showErrorPopup,    \* HomePage useState showErrorPopup
  homePc,            \* position in HomePage.handleSubmit
  revision,          \* which handleSubmit the mounted hook has
  hpc,               \* position in the retrying handleSubmit
  submitAttempt,     \* loop variable of the retrying handleSubmit
  calls,             \* extractTranscript calls of the current submission
  probePc,           \* per probe: position in the diagnostic function
  probeElapsed,      \* per probe: ms since its fetch was issued
  probeOutcome,      \* per probe: how its awaited fetch / body read settled
  probeResult,       \* per probe: what the call settled with
  fmtSegments,       \* transcript.segments of the displayed transcript
  fmtOp,             \* the formatter applied last
  fmtArg,            \* the arguments when the last call was formatTime
  fmtOut             \* what the formatter returned

authVars == <<now, loggedOut, accessToken, refreshTokenValue, user, isLoading,
              isRefreshing, lsAccess, lsRefresh, lsUser, nextPair,
              pc, snap, result, posts>>

apiVars == <<withAuth, headers, tokenCalls, tokenFailed>>

homeVars == <<loading, showErrorPopup, homePc>>

probeVars == <<probePc, probeElapsed, probeOutcome, probeResult>>

formatVars == <<fmtSegments, fmtOp, fmtArg, fmtOut>>

utilVars == <<probeVars, formatVars>>

retryVars == <<revision, hpc, submitAttempt, calls, utilVars>>

hookVars == <<status, url, format, transcript, allTranscripts, availableLanguages,
              selectedLanguage, videoId, thumbnailUrl, videoMetadata, transcriptId,
              isSaved, error, errorType, retryInfo, subCount, inflight, live,
              homeVars, retryVars>>

extractVars == <<xpc, onRetry, attempt, lastError, notifications, delays, outcomes,
                 xresult, apiVars, hookVars>>

vars == <<authVars, extractVars>>

(***************************************************************************)
(* AuthContext.jsx                                                         *)
(***************************************************************************)
BufferSeconds == 60

\* parseJwt, line 30: every decoding failure is caught and gives null
NoPayload == [decoded |-> FALSE, exp |-> 0]

\* parseJwt(token): a token of pair 0 is null or a string that does not decode
\* (no second segment, not base64, not JSON); exp 0 is a payload without exp
parseJwt(token) ==
  IF token.pair = 0 THEN NoPayload ELSE [decoded |-> TRUE, exp |-> token.exp]

\* isTokenExpired that compares with the expiry itself and ignores the buffer
isTokenExpiredNoBuffer(token, bufferSeconds) ==
  LET payload == parseJwt(token)
  IN  IF ~payload.decoded \/ payload.exp = 0 THEN TRUE
      ELSE now * 1000 >= payload.exp * 1000

\* isTokenExpired(token, bufferSeconds): parseJwt fails or no exp => true
isTokenExpired(token, bufferSeconds) ==
  LET payload == parseJwt(token)
  IN  IF ~payload.decoded \/ payload.exp = 0 THEN TRUE
      ELSE now * 1000 >= payload.exp * 1000 - bufferSeconds * 1000

\* saveAuthData that stores the access token and leaves the refresh token
saveAuthDataAccessOnly(tokens, userData) ==
  /\ lsAccess' = IF tokens.access_token # Null THEN tokens.access_token ELSE lsAccess
  /\ accessToken' = IF tokens.access_token # Null THEN tokens.access_token ELSE accessToken
  /\ UNCHANGED <<lsRefresh, refreshTokenValue>>
  /\ lsUser' = IF userData # 0 THEN userData ELSE lsUser
  /\ user' = IF userData # 0 THEN userData ELSE user

\* saveAuthData(tokens, userData): each field is written only when truthy
saveAuthData(tokens, userData) ==
  /\ lsAccess' = IF tokens.access_token # Null THEN tokens.access_token ELSE lsAccess
  /\ accessToken' = IF tokens.access_token # Null THEN tokens.access_token ELSE accessToken
  /\ lsRefresh' = IF tokens.refresh_token # Null THEN tokens.refresh_token ELSE lsRefresh
  /\ refreshTokenValue' = IF tokens.refresh_token # Null THEN tokens.refresh_token
                          ELSE refreshTokenValue
  /\ lsUser' = IF userData # 0 THEN userData ELSE lsUser
  /\ user' = IF userData # 0 THEN userData ELSE user

\* clearAuthStorage that resets the React state and leaves localStorage
clearAuthStorageMemoryOnly ==
  /\ UNCHANGED <<lsAccess, lsRefresh, lsUser>>
  /\ accessToken' = Null
  /\ refreshTokenValue' = Null
  /\ user' = 0

clearAuthStorage ==
  /\ lsAccess' = Null
  /\ lsRefresh' = Null
  /\ lsUser' = 0
  /\ accessToken' = Null
  /\ refreshTokenValue' = Null
  /\ user' = 0

\* the pair the auth server issues at the current time
IssuedPair ==
  [access_token |-> Token(nextPair, now + AccessTTL),
   refresh_token |-> Token(nextPair, now + RefreshTTL)]

\* the auth server accepts a refresh token that decodes and has not expired
ServerAccepts(token) == token.exp # 0 /\ now < token.exp

\* extractTranscript, line 210: let lastError = null
NoError ==
  [name |-> "none", status |-> 0, retryable |-> "undefined", message |-> "",
   retriesExhausted |-> FALSE]

\* AuthProvider before its first effect; extractTranscript not called
AuthInit ==
  /\ now = StartNow
  /\ loggedOut = FALSE
  /\ accessToken = Null
  /\ refreshTokenValue = Null
  /\ user = 0
  /\ isLoading = TRUE
  /\ isRefreshing = FALSE
  /\ lsAccess \in {Null} \cup {Token(1, e) : e \in StoredAccessExp}
  /\ lsRefresh \in {Null} \cup {Token(1, e) : e \in StoredRefreshExp}
  /\ lsUser \in {0, 1, 2}
  /\ nextPair = 2
  /\ pc = [c \in Callers |-> "idle"]
  /\ snap = [c \in Callers |->
              [accessToken |-> Null, refreshTokenValue |-> Null, isRefreshing |-> FALSE]]
  /\ result = [c \in Callers |-> Null]
  /\ posts = [c \in Callers |-> 0]
  /\ xpc = "idle"
  /\ onRetry = FALSE
  /\ attempt = 0
  /\ lastError = NoError
  /\ notifications = <<>>
  /\ delays = <<>>
  /\ outcomes = <<>>
  /\ xresult = "none"
  /\ withAuth = FALSE
  /\ headers = <<>>
  /\ tokenCalls = 0
  /\ tokenFailed = FALSE
  /\ status = "idle"
  /\ url = ""
  /\ format = "txt"
  /\ transcript = [sub |-> 0, key |-> <<>>, language |-> <<>>, video_id |-> 0]
  /\ allTranscripts = [sub |-> 0, codes |-> <<>>]
  /\ availableLanguages = [sub |-> 0, codes |-> <<>>]
  /\ selectedLanguage = <<"e", "n">>
  /\ videoId = 0
  /\ thumbnailUrl = 0
  /\ videoMetadata = 0
  /\ transcriptId = 0
  /\ isSaved = FALSE
  /\ error = "null"
  /\ errorType = "null"
  /\ retryInfo = [attempt |-> 0, maxRetries |-> 0, delay |-> 0, error |-> "null"]
  /\ subCount = 0
  /\ inflight = {}
  /\ live = 0
  /\ loading = FALSE
  /\ showErrorPopup = FALSE
  /\ homePc = "idle"
  /\ revision = "single"
  /\ hpc = "idle"
  /\ submitAttempt = 0
  /\ calls = 0
  /\ probePc = [p \in Probes |-> "idle"]
  /\ probeElapsed = [p \in Probes |-> 0]
  /\ probeOutcome = [p \in Probes |-> NoOutcome]
  /\ probeResult = [p \in Probes |-> NoProbeResult]
  /\ fmtSegments = <<>>
  /\ fmtOp = "none"
  /\ fmtArg = [seconds |-> 0, forVtt |-> FALSE]
  /\ fmtOut = <<>>

\* the init effect restoring whatever is stored, a partial pair included
InitEffectAnyStored ==
  /\ isLoading
  /\ isLoading' = FALSE
  /\ IF lsAccess # Null \/ lsRefresh # Null
     THEN IF ~isTokenExpired(lsAccess, BufferSeconds)
          THEN /\ accessToken' = lsAccess
               /\ refreshTokenValue' = lsRefresh
               /\ user' = IF lsUser = 1 THEN 1 ELSE user
               /\ UNCHANGED <<lsAccess, lsRefresh, lsUser>>
          ELSE IF ~isTokenExpired(lsRefresh, 0)
               THEN /\ refreshTokenValue' = lsRefresh
                    /\ UNCHANGED <<accessToken, user, lsAccess, lsRefresh, lsUser>>
               ELSE clearAuthStorage
     ELSE UNCHANGED <<accessToken, refreshTokenValue, user, lsAccess, lsRefresh, lsUser>>
  /\ UNCHANGED <<now, loggedOut, isRefreshing, nextPair, pc, snap, result, posts>>
  /\ UNCHANGED extractVars

\* useEffect(..., []) of AuthProvider: restore the session from localStorage
InitEffect ==
  /\ isLoading
  /\ isLoading' = FALSE
  /\ IF lsAccess # Null /\ lsRefresh # Null
     THEN IF ~isTokenExpired(lsAccess, BufferSeconds)
          THEN /\ accessToken' = lsAccess
               /\ refreshTokenValue' = lsRefresh
               /\ user' = IF lsUser = 1 THEN 1 ELSE user
               /\ UNCHANGED <<lsAccess, lsRefresh, lsUser>>
          ELSE IF ~isTokenExpired(lsRefresh, 0)
               THEN /\ refreshTokenValue' = lsRefresh
                    /\ UNCHANGED <<accessToken, user, lsAccess, lsRefresh, lsUser>>
               ELSE clearAuthStorage
     ELSE UNCHANGED <<accessToken, refreshTokenValue, user, lsAccess, lsRefresh, lsUser>>
  /\ UNCHANGED <<now, loggedOut, isRefreshing, nextPair, pc, snap, result, posts>>
  /\ UNCHANGED extractVars

\* login / register: the response of POST /auth/login (/auth/register) is
\* saved; the forms are reachable once the provider has run its init effect
Login ==
  /\ ~isLoading
  /\ nextPair <= MaxPair
  /\ saveAuthData(IssuedPair, 1)
  /\ nextPair' = nextPair + 1
  /\ loggedOut' = FALSE
  /\ UNCHANGED <<now, isLoading, isRefreshing, pc, snap, result, posts>>
  /\ UNCHANGED extractVars

Logout ==
  /\ ~isLoading
  /\ clearAuthStorage
  /\ loggedOut' = TRUE
  /\ UNCHANGED <<now, isLoading, isRefreshing, nextPair, pc, snap, result, posts>>
  /\ UNCHANGED extractVars

\* a component renders and takes the getAccessToken closure of that render
Render(c) ==
  /\ pc[c] = "idle"
  /\ snap[c] # [accessToken |-> accessToken, refreshTokenValue |-> refreshTokenValue,
                isRefreshing |-> isRefreshing]
  /\ snap' = [snap EXCEPT ![c] =
               [accessToken |-> accessToken, refreshTokenValue |-> refreshTokenValue,
                isRefreshing |-> isRefreshing]]
  /\ UNCHANGED <<now, loggedOut, accessToken, refreshTokenValue, user, isLoading, isRefreshing,
                 lsAccess, lsRefresh, lsUser, nextPair, pc, result, posts>>
  /\ UNCHANGED extractVars

\* the validity test of line 137 without the 60 s buffer
CallValidNoBuffer(c) ==
  /\ pc[c] = "idle"
  /\ snap[c].accessToken # Null /\ ~isTokenExpired(snap[c].accessToken, 0)
  /\ pc' = [pc EXCEPT ![c] = "returned"]
  /\ result' = [result EXCEPT ![c] = snap[c].accessToken]
  /\ posts' = [posts EXCEPT ![c] = 0]
  /\ UNCHANGED <<now, loggedOut, accessToken, refreshTokenValue, user, isLoading, isRefreshing,
                 lsAccess, lsRefresh, lsUser, nextPair, snap>>
  /\ UNCHANGED extractVars

\* getAccessToken, line 137: the closure's access token is still valid
CallValid(c) ==
  /\ pc[c] = "idle"
  /\ snap[c].accessToken # Null /\ ~isTokenExpired(snap[c].accessToken, BufferSeconds)
  /\ pc' = [pc EXCEPT ![c] = "returned"]
  /\ result' = [result EXCEPT ![c] = snap[c].accessToken]
  /\ posts' = [posts EXCEPT ![c] = 0]
  /\ UNCHANGED <<now, loggedOut, accessToken, refreshTokenValue, user, isLoading, isRefreshing,
                 lsAccess, lsRefresh, lsUser, nextPair, snap>>
  /\ UNCHANGED extractVars

\* getAccessToken, line 142: no refresh token, the user has to log in
CallNoRefreshToken(c) ==
  /\ pc[c] = "idle"
  /\ ~(snap[c].accessToken # Null /\ ~isTokenExpired(snap[c].accessToken, BufferSeconds))
  /\ snap[c].refreshTokenValue = Null
  /\ pc' = [pc EXCEPT ![c] = "returned"]
  /\ result' = [result EXCEPT ![c] = Null]
  /\ posts' = [posts EXCEPT ![c] = 0]
  /\ UNCHANGED <<now, loggedOut, accessToken, refreshTokenValue, user, isLoading, isRefreshing,
                 lsAccess, lsRefresh, lsUser, nextPair, snap>>
  /\ UNCHANGED extractVars

\* getAccessToken, line 147: the closure saw a refresh in progress; sleep 100 ms
CallWait(c) ==
  /\ pc[c] = "idle"
  /\ ~(snap[c].accessToken # Null /\ ~isTokenExpired(snap[c].accessToken, BufferSeconds))
  /\ snap[c].refreshTokenValue # Null
  /\ snap[c].isRefreshing
  /\ pc' = [pc EXCEPT ![c] = "waiting"]
  /\ posts' = [posts EXCEPT ![c] = 0]
  /\ UNCHANGED <<now, loggedOut, accessToken, refreshTokenValue, user, isLoading, isRefreshing,
                 lsAccess, lsRefresh, lsUser, nextPair, snap, result>>
  /\ UNCHANGED extractVars

\* getAccessToken, line 150: after the 100 ms, return the closure's access token
WaitDone(c) ==
  /\ pc[c] = "waiting"
  /\ pc' = [pc EXCEPT ![c] = "returned"]
  /\ result' = [result EXCEPT ![c] = snap[c].accessToken]
  /\ UNCHANGED <<now, loggedOut, accessToken, refreshTokenValue, user, isLoading, isRefreshing,
                 lsAccess, lsRefresh, lsUser, nextPair, snap, posts>>
  /\ UNCHANGED extractVars

\* getAccessToken, lines 154-156: setIsRefreshing(true), POST /auth/refresh
CallRefresh(c) ==
  /\ pc[c] = "idle"
  /\ ~(snap[c].accessToken # Null /\ ~isTokenExpired(snap[c].accessToken, BufferSeconds))
  /\ snap[c].refreshTokenValue # Null
  /\ ~snap[c].isRefreshing
  /\ isRefreshing' = TRUE
  /\ pc' = [pc EXCEPT ![c] = "refreshing"]
  /\ posts' = [posts EXCEPT ![c] = 1]
  /\ UNCHANGED <<now, loggedOut, accessToken, refreshTokenValue, user, isLoading,
                 lsAccess, lsRefresh, lsUser, nextPair, snap, result>>
  /\ UNCHANGED extractVars

\* getAccessToken, lines 157-159: the refresh exchange succeeded
RefreshOk(c) ==
  /\ pc[c] = "refreshing"
  /\ ServerAccepts(snap[c].refreshTokenValue)
  /\ nextPair <= MaxPair
  /\ saveAuthData(IssuedPair, 0)
  /\ isRefreshing' = FALSE
  /\ nextPair' = nextPair + 1
  /\ pc' = [pc EXCEPT ![c] = "returned"]
  /\ result' = [result EXCEPT ![c] = IssuedPair.access_token]
  /\ UNCHANGED <<now, loggedOut, isLoading, snap, posts>>
  /\ UNCHANGED extractVars

\* getAccessToken, lines 160-165: the refresh exchange was rejected or failed
RefreshFail(c) ==
  /\ pc[c] = "refreshing"
  /\ isRefreshing' = FALSE
  /\ clearAuthStorage
  /\ pc' = [pc EXCEPT ![c] = "threw"]
  /\ UNCHANGED <<now, loggedOut, isLoading, nextPair, snap, result, posts>>
  /\ UNCHANGED extractVars

\* the caller has consumed the outcome of its call
Finish(c) ==
  /\ pc[c] \in {"returned", "threw"}
  /\ pc' = [pc EXCEPT ![c] = "idle"]
  /\ result' = [result EXCEPT ![c] = Null]
  /\ posts' = [posts EXCEPT ![c] = 0]
  /\ UNCHANGED <<now, loggedOut, accessToken, refreshTokenValue, user, isLoading, isRefreshing,
                 lsAccess, lsRefresh, lsUser, nextPair, snap>>
  /\ UNCHANGED extractVars

\* time passes
Tick ==
  /\ now + TickStep <= MaxNow
  /\ now' = now + TickStep
  /\ UNCHANGED <<loggedOut, accessToken, refreshTokenValue, user, isLoading, isRefreshing,
                 lsAccess, lsRefresh, lsUser, nextPair, pc, snap, result, posts>>
  /\ UNCHANGED extractVars

(***************************************************************************)
(* src/unnamed/part_005: makeRequest and extractTranscript (with retries)  *)
(***************************************************************************)
maxRetries == 3

baseDelay == 2000

\* statuses the server answers with; 504 stands for the switch's default case
ErrorStatuses == {400, 401, 403, 404, 422, 429, 500, 502, 503, 504}

\* what one network attempt can end in: a response, fetch rejecting
\* (TypeError), or a 200 whose body does not decode (response.json() rejects)
Ok200 == [kind |-> "response", status |-> 200]

FailOutcomes ==
  {[kind |-> "response", status |-> s] : s \in ErrorStatuses}
    \cup {[kind |-> "TypeError", status |-> 0], [kind |-> "SyntaxError", status |-> 200]}

\* makeRequest, the switch on response.status: error.retryable
statusRetryable(st) ==
  CASE st = 400 -> "false"
    [] st = 401 -> "false"
    [] st = 403 -> "false"
    [] st = 404 -> "false"
    [] st = 422 -> "false"
    [] st = 429 -> "true"
    [] st = 500 -> "true"
    [] st = 502 -> "true"
    [] st = 503 -> "true"
    [] OTHER -> "true"

\* makeRequest, the switch on response.status: the prefix of error.message
statusMessage(st) ==
  CASE st = 400 -> "Bad request"
    [] st = 401 -> "Authentication failed"
    [] st = 403 -> "Access denied"
    [] st = 404 -> "Not found"
    [] st = 422 -> "Validation error"
    [] st = 429 -> "Rate limited"
    [] st = 500 -> "Server error"
    [] st = 502 -> "Gateway error"
    [] st = 503 -> "Service unavailable"
    [] OTHER -> "Error"

\* makeRequest whose switch lacks the case 404 (falls to the default)
makeRequestNo404(o) ==
  IF o.kind = "TypeError"
  THEN [name |-> "TypeError", status |-> 0, retryable |-> "undefined",
        message |-> "Failed to fetch", retriesExhausted |-> FALSE]
  ELSE IF o.kind = "SyntaxError"
  THEN [name |-> "SyntaxError", status |-> 0, retryable |-> "undefined",
        message |-> "Unexpected token", retriesExhausted |-> FALSE]
  ELSE [name |-> "Error", status |-> o.status,
        retryable |-> IF o.status = 404 THEN "true" ELSE statusRetryable(o.status),
        message |-> IF o.status = 404 THEN "Error" ELSE statusMessage(o.status),
        retriesExhausted |-> FALSE]

\* makeRequest: the error it throws for a failed attempt.  retryable is
\* "true" / "false" as set by the switch, "undefined" when never set.
makeRequest(o) ==
  IF o.kind = "TypeError"
  THEN [name |-> "TypeError", status |-> 0, retryable |-> "undefined",
        message |-> "Failed to fetch", retriesExhausted |-> FALSE]
  ELSE IF o.kind = "SyntaxError"
  THEN [name |-> "SyntaxError", status |-> 0, retryable |-> "undefined",
        message |-> "Unexpected token", retriesExhausted |-> FALSE]
  ELSE [name |-> "Error", status |-> o.status,
        retryable |-> statusRetryable(o.status),
        message |-> statusMessage(o.status),
        retriesExhausted |-> FALSE]

\* extractTranscript, lines 216-223: a TypeError becomes the network error
CaughtError(err) ==
  IF err.name = "TypeError"
  THEN [name |-> "Error", status |-> 0, retryable |-> "true",
        message |-> "Network error", retriesExhausted |-> FALSE]
  ELSE err

\* a backoff that grows linearly instead of doubling
backoffDelayLinear(n) == baseDelay * (n + 1)

\* extractTranscript, line 236
backoffDelay(n) == baseDelay * (2 ^ n)

\* the argument of onRetry with the zero-based loop index
RetryInfoZeroBased(n, err) ==
  [attempt |-> n, maxRetries |-> maxRetries, delay |-> backoffDelay(n),
   error |-> err.message]

\* extractTranscript, lines 240-245: the argument of onRetry
RetryInfo(n, err) ==
  [attempt |-> n + 1, maxRetries |-> maxRetries, delay |-> backoffDelay(n),
   error |-> err.message]

\* exhaustion that throws the last error unmarked
ExhaustedUnmarked(err) == err

\* extractTranscript, lines 252-254
Exhausted(err) == [err EXCEPT !.retriesExhausted = TRUE]

\* no session in storage, nothing mounted; extractTranscript not called yet
ExtractInit ==
  /\ now = StartNow
  /\ loggedOut = FALSE
  /\ accessToken = Null
  /\ refreshTokenValue = Null
  /\ user = 0
  /\ isLoading = TRUE
  /\ isRefreshing = FALSE
  /\ lsAccess = Null
  /\ lsRefresh = Null
  /\ lsUser = 0
  /\ nextPair = 2
  /\ pc = [c \in Callers |-> "idle"]
  /\ snap = [c \in Callers |->
              [accessToken |-> Null, refreshTokenValue |-> Null, isRefreshing |-> FALSE]]
  /\ result = [c \in Callers |-> Null]
  /\ posts = [c \in Callers |-> 0]
  /\ xpc = "idle"
  /\ onRetry = FALSE
  /\ attempt = 0
  /\ lastError = NoError
  /\ notifications = <<>>
  /\ delays = <<>>
  /\ outcomes = <<>>
  /\ xresult = "none"
  /\ withAuth = FALSE
  /\ headers = <<>>
  /\ tokenCalls = 0
  /\ tokenFailed = FALSE
  /\ status = "idle"
  /\ url = ""
  /\ format = "txt"
  /\ transcript = [sub |-> 0, key |-> <<>>, language |-> <<>>, video_id |-> 0]
  /\ allTranscripts = [sub |-> 0, codes |-> <<>>]
  /\ availableLanguages = [sub |-> 0, codes |-> <<>>]
  /\ selectedLanguage = <<"e", "n">>
  /\ videoId = 0
  /\ thumbnailUrl = 0
  /\ videoMetadata = 0
  /\ transcriptId = 0
  /\ isSaved = FALSE
  /\ error = "null"
  /\ errorType = "null"
  /\ retryInfo = [attempt |-> 0, maxRetries |-> 0, delay |-> 0, error |-> "null"]
  /\ subCount = 0
  /\ inflight = {}
  /\ live = 0
  /\ loading = FALSE
  /\ showErrorPopup = FALSE
  /\ homePc = "idle"
  /\ revision = "single"
  /\ hpc = "idle"
  /\ submitAttempt = 0
  /\ calls = 0
  /\ probePc = [p \in Probes |-> "idle"]
  /\ probeElapsed = [p \in Probes |-> 0]
  /\ probeOutcome = [p \in Probes |-> NoOutcome]
  /\ probeResult = [p \in Probes |-> NoProbeResult]
  /\ fmtSegments = <<>>
  /\ fmtOp = "none"
  /\ fmtArg = [seconds |-> 0, forVtt |-> FALSE]
  /\ fmtOut = <<>>

\* extractTranscript is called, with or without an onRetry callback; the
\* first makeRequest is issued
ExtractStart(cb) ==
  /\ xpc = "idle"
  /\ xpc' = "requesting"
  /\ onRetry' = cb
  /\ attempt' = 0
  /\ lastError' = NoError
  /\ UNCHANGED <<notifications, delays, outcomes, xresult>>
  /\ UNCHANGED apiVars
  /\ UNCHANGED hookVars
  /\ UNCHANGED authVars

\* makeRequest resolves: extractTranscript returns the decoded body
RequestOk ==
  /\ xpc = "requesting"
  /\ outcomes' = Append(outcomes, Ok200)
  /\ xpc' = "returned"
  /\ xresult' = "payload"
  /\ UNCHANGED <<onRetry, attempt, lastError, notifications, delays>>
  /\ UNCHANGED apiVars
  /\ UNCHANGED hookVars
  /\ UNCHANGED authVars

\* the catch block of extractTranscript, lines 216-249, up to the throw, the
\* break (252-254) or the await delay
CatchBlock(o) ==
  /\ xpc = "requesting"
  /\ outcomes' = Append(outcomes, o)
  /\ LET err == CaughtError(makeRequest(o)) IN
       IF err.retryable = "false"
       THEN /\ lastError' = err
            /\ xpc' = "threw"
            /\ UNCHANGED <<notifications, delays>>
       ELSE IF attempt = maxRetries
       THEN /\ lastError' = Exhausted(err)
            /\ xpc' = "threw"
            /\ UNCHANGED <<notifications, delays>>
       ELSE /\ lastError' = err
            /\ notifications' = IF onRetry THEN Append(notifications, RetryInfo(attempt, err))
                                ELSE notifications
            /\ delays' = Append(delays, backoffDelay(attempt))
            /\ xpc' = "delaying"
  /\ UNCHANGED <<onRetry, attempt, xresult>>
  /\ UNCHANGED apiVars
  /\ UNCHANGED authVars

\* makeRequest throws in a call whose onRetry, if any, touches no state here
RequestFail(o) ==
  /\ CatchBlock(o)
  /\ UNCHANGED hookVars

\* the backoff delay has elapsed: next iteration, next makeRequest
DelayElapsed ==
  /\ xpc = "delaying"
  /\ attempt' = attempt + 1
  /\ xpc' = "requesting"
  /\ UNCHANGED <<onRetry, lastError, notifications, delays, outcomes, xresult>>
  /\ UNCHANGED apiVars
  /\ UNCHANGED hookVars
  /\ UNCHANGED authVars

(***************************************************************************)
(* src/src/services/api.js: makeRequest with the Authorization header and  *)
(* extractTranscript (one attempt).  The getAccessToken it is given is the *)
(* closure of caller 1.                                                    *)
(***************************************************************************)
Extractor == 1

\* makeRequest, lines 156-220: the error thrown for a failed attempt
apiMakeRequest(o) ==
  IF o.kind = "TypeError"
  THEN [name |-> "TypeError", status |-> 0, retryable |-> "undefined",
        message |-> "Failed to fetch", retriesExhausted |-> FALSE]
  ELSE IF o.kind = "SyntaxError"
  THEN [name |-> "SyntaxError", status |-> 0, retryable |-> "undefined",
        message |-> "Unexpected token", retriesExhausted |-> FALSE]
  ELSE [name |-> "Error", status |-> o.status,
        retryable |-> statusRetryable(o.status),
        message |-> statusMessage(o.status),
        retriesExhausted |-> FALSE]

\* extractTranscript, lines 226-233: a TypeError becomes a new Error with
\* status 0 (and no retryable field); any other error is rethrown
apiCaughtError(err) ==
  IF err.name = "TypeError"
  THEN [name |-> "Error", status |-> 0, retryable |-> "undefined",
        message |-> "Cannot reach backend server", retriesExhausted |-> FALSE]
  ELSE err

\* headers that carry the API key only beside a token
RequestHeadersKeyWithToken(token) == [apiKey |-> token # Null, authorization |-> token]

\* makeRequest, lines 131-135 and 141-143: the headers of the request
RequestHeaders(token) == [apiKey |-> TRUE, authorization |-> token]

\* extractTranscript(url, format, options, getAccessToken) is called;
\* makeRequest builds the headers and, given getAccessToken, calls it
ApiStart(auth) ==
  /\ xpc = "idle"
  /\ pc[Extractor] = "idle"
  /\ withAuth' = auth
  /\ tokenFailed' = FALSE
  /\ lastError' = NoError
  /\ IF auth
     THEN /\ xpc' = "token"
          /\ tokenCalls' = tokenCalls + 1
          /\ UNCHANGED headers
     ELSE /\ xpc' = "requesting"
          /\ headers' = Append(headers, RequestHeaders(Null))
          /\ UNCHANGED tokenCalls
  /\ UNCHANGED <<onRetry, attempt, notifications, delays, outcomes, xresult>>
  /\ UNCHANGED authVars
  /\ UNCHANGED hookVars

\* the getAccessToken call of makeRequest, line 140, run by the extractor
TokenValid == xpc = "token" /\ CallValid(Extractor)

TokenNoRefreshToken == xpc = "token" /\ CallNoRefreshToken(Extractor)

TokenWait == xpc = "token" /\ CallWait(Extractor)

TokenWaitDone == xpc = "token" /\ WaitDone(Extractor)

TokenRefresh == xpc = "token" /\ CallRefresh(Extractor)

TokenRefreshOk == xpc = "token" /\ RefreshOk(Extractor)

TokenRefreshFail == xpc = "token" /\ RefreshFail(Extractor)

\* a makeRequest that gives up when getAccessToken yields no token
MakeRequestSendAbortsOnNull ==
  /\ xpc = "token"
  /\ pc[Extractor] \in {"returned", "threw"}
  /\ IF pc[Extractor] = "returned" /\ result[Extractor] # Null
     THEN /\ headers' = Append(headers, RequestHeaders(result[Extractor]))
          /\ xpc' = "requesting"
     ELSE /\ xpc' = "threw"
          /\ UNCHANGED headers
  /\ tokenFailed' = (pc[Extractor] = "threw")
  /\ pc' = [pc EXCEPT ![Extractor] = "idle"]
  /\ result' = [result EXCEPT ![Extractor] = Null]
  /\ posts' = [posts EXCEPT ![Extractor] = 0]
  /\ UNCHANGED <<onRetry, attempt, lastError, notifications, delays, outcomes, xresult,
                 withAuth, tokenCalls>>
  /\ UNCHANGED <<now, loggedOut, accessToken, refreshTokenValue, user, isLoading, isRefreshing,
                 lsAccess, lsRefresh, lsUser, nextPair, snap>>
  /\ UNCHANGED hookVars

\* makeRequest, lines 141-154: getAccessToken has settled; a truthy token
\* becomes the Authorization header, null or a throw leave it out; fetch
MakeRequestSend ==
  /\ xpc = "token"
  /\ pc[Extractor] \in {"returned", "threw"}
  /\ headers' = Append(headers,
                  RequestHeaders(IF pc[Extractor] = "returned" THEN result[Extractor]
                                 ELSE Null))
  /\ xpc' = "requesting"
  /\ tokenFailed' = (pc[Extractor] = "threw")
  /\ pc' = [pc EXCEPT ![Extractor] = "idle"]
  /\ result' = [result EXCEPT ![Extractor] = Null]
  /\ posts' = [posts EXCEPT ![Extractor] = 0]
  /\ UNCHANGED <<onRetry, attempt, lastError, notifications, delays, outcomes, xresult,
                 withAuth, tokenCalls>>
  /\ UNCHANGED <<now, loggedOut, accessToken, refreshTokenValue, user, isLoading, isRefreshing,
                 lsAccess, lsRefresh, lsUser, nextPair, snap>>
  /\ UNCHANGED hookVars

\* makeRequest resolves with the decoded body, extractTranscript returns it
ApiRequestOk ==
  /\ xpc = "requesting"
  /\ outcomes' = Append(outcomes, Ok200)
  /\ xpc' = "returned"
  /\ xresult' = "payload"
  /\ UNCHANGED <<onRetry, attempt, lastError, notifications, delays>>
  /\ UNCHANGED apiVars
  /\ UNCHANGED hookVars
  /\ UNCHANGED authVars

\* makeRequest throws, extractTranscript (lines 226-234) throws
ApiRequestFail(o) ==
  /\ xpc = "requesting"
  /\ outcomes' = Append(outcomes, o)
  /\ lastError' = apiCaughtError(apiMakeRequest(o))
  /\ xpc' = "threw"
  /\ UNCHANGED <<onRetry, attempt, notifications, delays, xresult>>
  /\ UNCHANGED apiVars
  /\ UNCHANGED hookVars
  /\ UNCHANGED authVars

(***************************************************************************)
(* extractTranscript(url, format, options, onRetry, getAccessToken), the   *)
(* five-argument orchestrator the hook calls: the retry loop of part_005   *)
(* around the makeRequest of services/api.js, a token before each attempt  *)
(***************************************************************************)
\* attempt outcomes that tell the paths of the loop apart
OrchOutcomes ==
  {[kind |-> "response", status |-> 404], [kind |-> "response", status |-> 503],
   [kind |-> "TypeError", status |-> 0]}

\* one attempt begins: makeRequest builds the headers and, when the call
\* requires authentication, calls getAccessToken first
OrchAttempt(auth) ==
  IF auth
  THEN /\ xpc' = "token"
       /\ tokenCalls' = tokenCalls + 1
       /\ tokenFailed' = FALSE
       /\ UNCHANGED headers
  ELSE /\ xpc' = "requesting"
       /\ headers' = Append(headers, RequestHeaders(Null))
       /\ tokenFailed' = FALSE
       /\ UNCHANGED tokenCalls

\* the hook calls extractTranscript with its retry callback
OrchStart(auth) ==
  /\ xpc = "idle"
  /\ pc[Extractor] = "idle"
  /\ withAuth' = auth
  /\ onRetry' = TRUE
  /\ attempt' = 0
  /\ lastError' = NoError
  /\ OrchAttempt(auth)
  /\ UNCHANGED <<notifications, delays, outcomes, xresult>>
  /\ UNCHANGED authVars
  /\ UNCHANGED hookVars

\* the backoff delay has elapsed: next iteration, next makeRequest
OrchDelayElapsed ==
  /\ xpc = "delaying"
  /\ attempt' = attempt + 1
  /\ OrchAttempt(withAuth)
  /\ UNCHANGED <<onRetry, lastError, notifications, delays, outcomes, xresult, withAuth>>
  /\ UNCHANGED authVars
  /\ UNCHANGED hookVars

\* the hook renders; a call in flight keeps the getAccessToken it was given
OrchRender == xpc = "idle" /\ Render(Extractor)

(***************************************************************************)
(* hooks/useTranscriptExtractor.js: the cache of one extraction            *)
(***************************************************************************)
MaxSubs == 2       \* handleSubmit calls explored

Subs == 1..MaxSubs

\* language codes, as the strings startsWith works on
NoCode == <<>>

EN == <<"e", "n">>

ENUS == <<"e", "n", "-", "U", "S">>

ES == <<"e", "s">>

FR == <<"f", "r">>

LangCodes == {EN, ENUS, ES, FR}

Urls == {"", "a"}

Formats == {"txt", "json"}

\* Object.keys(result.transcripts): distinct codes in response order
KeyLists ==
  {<<EN>>, <<ENUS>>, <<FR>>, <<ES, EN>>, <<ENUS, EN>>, <<ES, ENUS>>, <<FR, ES>>,
   <<FR, ENUS, ES>>}

\* what extractTranscript can resolve with.  shape: "segmented" has the
\* transcripts wrapper, "hollow" has it with no variant holding segments,
\* "legacy" has segments / transcript / full_text at the top, "empty" has
\* none of them, "null" is a falsy body.  segments: the codes whose variant
\* holds segments.  meta: video_id, thumbnail_url, video_title, transcript_id
\* and saved are present.
KeysOf(k) == {k[i] : i \in 1..Len(k)}

HookResponses ==
  {[shape |-> "segmented", transcripts |-> k, default_language |-> NoCode,
    available_languages |-> <<>>, meta |-> FALSE, segments |-> KeysOf(k)] :
      k \in KeyLists}
  \cup
  {[shape |-> "segmented", transcripts |-> k, default_language |-> ES,
    available_languages |-> <<ES, FR, ES>>, meta |-> TRUE, segments |-> KeysOf(k)] :
      k \in KeyLists}
  \cup
  {[shape |-> "segmented", transcripts |-> k, default_language |-> NoCode,
    available_languages |-> <<>>, meta |-> FALSE, segments |-> {k[1]}] :
      k \in {l \in KeyLists : Len(l) > 1}}
  \cup
  {[shape |-> sh, transcripts |-> <<>>, default_language |-> NoCode,
    available_languages |-> <<>>, meta |-> m, segments |-> {}] :
      sh \in {"legacy", "empty"}, m \in BOOLEAN}
  \cup
  {[shape |-> sh, transcripts |-> k, default_language |-> NoCode,
    available_languages |-> <<>>, meta |-> FALSE, segments |-> {}] :
      sh \in {"hollow"}, k \in {<<EN>>}}
  \cup
  {[shape |-> "null", transcripts |-> <<>>, default_language |-> NoCode,
    available_languages |-> <<>>, meta |-> FALSE, segments |-> {}]}

\* the failures of extractTranscript the hook tells apart
HookOutcomes ==
  {[kind |-> "response", status |-> 404], [kind |-> "response", status |-> 422],
   [kind |-> "TypeError", status |-> 0]}

NoTranscript == [sub |-> 0, key |-> NoCode, language |-> NoCode, video_id |-> 0]

NoCache == [sub |-> 0, codes |-> <<>>]

NoLanguages == [sub |-> 0, codes |-> <<>>]

NoRetryInfo == [attempt |-> 0, maxRetries |-> 0, delay |-> 0, error |-> "null"]

\* String.prototype.startsWith
startsWith(s, p) == Len(p) <= Len(s) /\ SubSeq(s, 1, Len(p)) = p

\* key in object
HasKey(codes, c) == \E i \in 1..Len(codes) : codes[i] = c

\* Array.prototype.find(code => code.startsWith(p)); NoCode for undefined
FindStartingWith(codes, p) ==
  IF \E i \in 1..Len(codes) : startsWith(codes[i], p)
  THEN codes[CHOOSE i \in 1..Len(codes) :
               /\ startsWith(codes[i], p)
               /\ \A j \in 1..(i - 1) : ~startsWith(codes[j], p)]
  ELSE NoCode

\* hasValidTranscriptData, lines 23-40: with a transcripts wrapper, some
\* variant holds segments; without one, the top-level fields do
hasValidTranscriptData(r) ==
  IF r.shape = "null" THEN FALSE
  ELSE IF Len(r.transcripts) > 0 THEN r.segments # {}
  ELSE r.shape = "legacy"

\* handleSubmit, findEnglish
findEnglish(r) ==
  IF HasKey(r.transcripts, EN) THEN EN ELSE FindStartingWith(r.transcripts, EN)

\* handleSubmit, langToUse
langToUse(r) ==
  IF findEnglish(r) # NoCode
  THEN findEnglish(r)
  ELSE IF r.default_language # NoCode /\ HasKey(r.transcripts, r.default_language)
  THEN r.default_language
  ELSE r.transcripts[1]

\* handleSubmit, uniqueLangs: the first occurrence of each code
RECURSIVE uniqueLangs(_)
uniqueLangs(langs) ==
  IF langs = <<>> THEN <<>>
  ELSE LET front == uniqueLangs(SubSeq(langs, 1, Len(langs) - 1))
           last == langs[Len(langs)]
       IN IF HasKey(front, last) THEN front ELSE Append(front, last)

\* handleSubmit, the type shown for an error of extractTranscript (the tests
\* on the message concern the server's detail text, which is not modelled)
ErrorTypeOf(err) ==
  IF err.status = 404 THEN "not_found"
  ELSE IF err.status \in {400, 422} THEN "validation"
  ELSE "server"

\* reset
reset ==
  /\ status' = "idle"
  /\ transcript' = NoTranscript
  /\ allTranscripts' = NoCache
  /\ availableLanguages' = NoLanguages
  /\ selectedLanguage' = EN
  /\ videoId' = 0
  /\ thumbnailUrl' = 0
  /\ videoMetadata' = 0
  /\ transcriptId' = 0
  /\ isSaved' = FALSE
  /\ error' = "null"
  /\ errorType' = "null"
  /\ live' = 0
  /\ UNCHANGED <<format, retryInfo, subCount, inflight>>

\* the exported reset handler
Reset ==
  /\ reset
  /\ UNCHANGED url
  /\ UNCHANGED authVars
  /\ UNCHANGED retryVars
  /\ UNCHANGED homeVars
  /\ UNCHANGED <<xpc, onRetry, attempt, lastError, notifications, delays, outcomes,
                 xresult, apiVars>>

\* handleUrlChange
handleUrlChange(newUrl) ==
  /\ url' = newUrl
  /\ IF newUrl # url
     THEN reset
     ELSE UNCHANGED <<status, format, transcript, allTranscripts, availableLanguages,
                      selectedLanguage, videoId, thumbnailUrl, videoMetadata,
                      transcriptId, isSaved, error, errorType, retryInfo, subCount,
                      inflight, live>>
  /\ UNCHANGED authVars
  /\ UNCHANGED retryVars
  /\ UNCHANGED homeVars
  /\ UNCHANGED <<xpc, onRetry, attempt, lastError, notifications, delays, outcomes,
                 xresult, apiVars>>

\* handleFormatChange
handleFormatChange(newFormat) ==
  /\ format' = newFormat
  /\ UNCHANGED <<status, url, transcript, allTranscripts, availableLanguages,
                 selectedLanguage, videoId, thumbnailUrl, videoMetadata, transcriptId,
                 isSaved, error, errorType, retryInfo, subCount, inflight, live>>
  /\ UNCHANGED authVars
  /\ UNCHANGED retryVars
  /\ UNCHANGED homeVars
  /\ UNCHANGED <<xpc, onRetry, attempt, lastError, notifications, delays, outcomes,
                 xresult, apiVars>>

\* a language switch that fetches the transcript again
handleLanguageChangeRefetch(langCode) ==
  /\ subCount < MaxSubs
  /\ selectedLanguage' = langCode
  /\ subCount' = subCount + 1
  /\ inflight' = inflight \cup {subCount + 1}
  /\ live' = subCount + 1
  /\ status' = "loading"
  /\ UNCHANGED <<url, format, transcript, allTranscripts, availableLanguages, videoId,
                 thumbnailUrl, videoMetadata, transcriptId, isSaved, error, errorType,
                 retryInfo>>
  /\ UNCHANGED authVars
  /\ UNCHANGED retryVars
  /\ UNCHANGED homeVars
  /\ UNCHANGED <<xpc, onRetry, attempt, lastError, notifications, delays, outcomes,
                 xresult, apiVars>>

\* handleLanguageChange
handleLanguageChange(langCode) ==
  /\ selectedLanguage' = langCode
  /\ IF allTranscripts # NoCache
     THEN LET key == IF HasKey(allTranscripts.codes, langCode) THEN langCode
                     ELSE FindStartingWith(allTranscripts.codes, langCode)
          IN IF key # NoCode
             THEN transcript' = [sub |-> allTranscripts.sub, key |-> key,
                                 language |-> langCode, video_id |-> 0]
             ELSE UNCHANGED transcript
     ELSE UNCHANGED transcript
  /\ UNCHANGED <<status, url, format, allTranscripts, availableLanguages, videoId,
                 thumbnailUrl, videoMetadata, transcriptId, isSaved, error, errorType,
                 retryInfo, subCount, inflight, live>>
  /\ UNCHANGED authVars
  /\ UNCHANGED retryVars
  /\ UNCHANGED homeVars
  /\ UNCHANGED <<xpc, onRetry, attempt, lastError, notifications, delays, outcomes,
                 xresult, apiVars>>

\* clearError
clearError ==
  /\ error' = "null"
  /\ errorType' = "null"
  /\ status' = IF status = "error" THEN "idle" ELSE status
  /\ UNCHANGED <<url, format, transcript, allTranscripts, availableLanguages,
                 selectedLanguage, videoId, thumbnailUrl, videoMetadata, transcriptId,
                 isSaved, retryInfo, subCount, inflight, live>>
  /\ UNCHANGED authVars
  /\ UNCHANGED retryVars
  /\ UNCHANGED homeVars
  /\ UNCHANGED <<xpc, onRetry, attempt, lastError, notifications, delays, outcomes,
                 xresult, apiVars>>

\* handleSubmit, lines 140-153: up to the await of extractTranscript
handleSubmit ==
  /\ subCount < MaxSubs
  /\ subCount' = subCount + 1
  /\ inflight' = inflight \cup {subCount + 1}
  /\ live' = subCount + 1
  /\ status' = "loading"
  /\ error' = "null"
  /\ errorType' = "null"
  /\ transcript' = NoTranscript
  /\ allTranscripts' = NoCache
  /\ thumbnailUrl' = 0
  /\ videoMetadata' = 0
  /\ transcriptId' = 0
  /\ isSaved' = FALSE
  /\ UNCHANGED <<url, format, availableLanguages, selectedLanguage, videoId, retryInfo>>
  /\ UNCHANGED authVars
  /\ UNCHANGED retryVars
  /\ UNCHANGED homeVars
  /\ UNCHANGED <<xpc, onRetry, attempt, lastError, notifications, delays, outcomes,
                 xresult, apiVars>>

\* handleSubmit, lines 154-171: extractTranscript threw
SubmitRejected(s, o) ==
  /\ s \in inflight
  /\ inflight' = inflight \ {s}
  /\ LET err == apiCaughtError(apiMakeRequest(o)) IN
       /\ error' = err.message
       /\ errorType' = ErrorTypeOf(err)
  /\ status' = "error"
  /\ UNCHANGED <<url, format, transcript, allTranscripts, availableLanguages,
                 selectedLanguage, videoId, thumbnailUrl, videoMetadata, transcriptId,
                 isSaved, retryInfo, subCount, live>>
  /\ UNCHANGED authVars
  /\ UNCHANGED retryVars
  /\ UNCHANGED homeVars
  /\ UNCHANGED <<xpc, onRetry, attempt, lastError, notifications, delays, outcomes,
                 xresult, apiVars>>

\* handleSubmit, lines 184-267: a valid result is stored
StoreResult(s, r) ==
  /\ IF r.shape = "segmented"
     THEN /\ allTranscripts' = [sub |-> s, codes |-> r.transcripts]
          /\ selectedLanguage' = langToUse(r)
          /\ transcript' = [sub |-> s, key |-> langToUse(r), language |-> langToUse(r),
                            video_id |-> IF r.meta THEN s ELSE 0]
          /\ availableLanguages' =
               [sub |-> s,
                codes |-> IF Len(r.available_languages) > 0
                          THEN uniqueLangs(r.available_languages)
                          ELSE r.transcripts]
     ELSE /\ transcript' = [sub |-> s, key |-> NoCode, language |-> NoCode,
                            video_id |-> IF r.meta THEN s ELSE 0]
          /\ UNCHANGED <<allTranscripts, selectedLanguage, availableLanguages>>
  /\ videoId' = IF r.meta THEN s ELSE videoId
  /\ thumbnailUrl' = IF r.meta THEN s ELSE thumbnailUrl
  /\ videoMetadata' = IF r.meta THEN s ELSE videoMetadata
  /\ transcriptId' = IF r.meta THEN s ELSE transcriptId
  /\ isSaved' = IF r.meta THEN TRUE ELSE isSaved
  /\ status' = "success"
  /\ UNCHANGED <<error, errorType>>

\* handleSubmit, lines 174-267: extractTranscript resolved with r
SubmitResolved(s, r) ==
  /\ s \in inflight
  /\ inflight' = inflight \ {s}
  /\ IF r.shape = "null"
     THEN UNCHANGED <<status, transcript, allTranscripts, availableLanguages,
                      selectedLanguage, videoId, thumbnailUrl, videoMetadata,
                      transcriptId, isSaved, error, errorType>>
     ELSE IF ~hasValidTranscriptData(r)
     THEN /\ error' = "No transcript data returned"
          /\ errorType' = "not_found"
          /\ status' = "error"
          /\ UNCHANGED <<transcript, allTranscripts, availableLanguages,
                         selectedLanguage, videoId, thumbnailUrl, videoMetadata,
                         transcriptId, isSaved>>
     ELSE StoreResult(s, r)
  /\ UNCHANGED <<url, format, retryInfo, subCount, live>>
  /\ UNCHANGED authVars
  /\ UNCHANGED retryVars
  /\ UNCHANGED homeVars
  /\ UNCHANGED <<xpc, onRetry, attempt, lastError, notifications, delays, outcomes,
                 xresult, apiVars>>

(***************************************************************************)
(* pages/HomePage.jsx: the page's own submission handler                   *)
(***************************************************************************)
\* handleSubmit, lines 127-128: the language shown first
homeLangToUse(r) ==
  LET defaultLang == IF r.default_language # NoCode THEN r.default_language ELSE EN
  IN IF HasKey(r.transcripts, defaultLang) THEN defaultLang ELSE r.transcripts[1]

\* handleUrlChange, lines 210-220; UrlInput is disabled while loading
HomeUrlChange(newUrl) ==
  /\ ~loading
  /\ url' = newUrl
  /\ IF newUrl # url
     THEN /\ availableLanguages' = NoLanguages
          /\ selectedLanguage' = EN
          /\ allTranscripts' = NoCache
          /\ thumbnailUrl' = 0
          /\ videoMetadata' = 0
     ELSE UNCHANGED <<availableLanguages, selectedLanguage, allTranscripts, thumbnailUrl,
                      videoMetadata>>
  /\ UNCHANGED <<status, format, transcript, videoId, transcriptId, isSaved, error,
                 errorType, retryInfo, subCount, inflight, live, homeVars>>
  /\ UNCHANGED authVars
  /\ UNCHANGED retryVars
  /\ UNCHANGED <<xpc, onRetry, attempt, lastError, notifications, delays, outcomes,
                 xresult, apiVars>>

\* handleLanguageChange, lines 193-208; LanguageSelector is disabled while loading
HomeLanguageChange(langCode) ==
  /\ ~loading
  /\ selectedLanguage' = langCode
  /\ IF allTranscripts # NoCache
     THEN LET key == IF HasKey(allTranscripts.codes, langCode) THEN langCode
                     ELSE FindStartingWith(allTranscripts.codes, langCode)
          IN IF key # NoCode
             THEN transcript' = [sub |-> allTranscripts.sub, key |-> key,
                                 language |-> langCode, video_id |-> 0]
             ELSE UNCHANGED transcript
     ELSE UNCHANGED transcript
  /\ UNCHANGED <<status, url, format, allTranscripts, availableLanguages, videoId,
                 thumbnailUrl, videoMetadata, transcriptId, isSaved, error, errorType,
                 retryInfo, subCount, inflight, live, homeVars>>
  /\ UNCHANGED authVars
  /\ UNCHANGED retryVars
  /\ UNCHANGED <<xpc, onRetry, attempt, lastError, notifications, delays, outcomes,
                 xresult, apiVars>>

\* handleSubmit, lines 102-117: up to the await of extractTranscript; the
\* form submits only when not disabled (UrlInput.jsx:11-15)
HomeSubmit ==
  /\ ~loading
  /\ subCount < MaxSubs
  /\ subCount' = subCount + 1
  /\ inflight' = {subCount + 1}
  /\ live' = subCount + 1
  /\ loading' = TRUE
  /\ homePc' = "extract"
  /\ error' = "null"
  /\ errorType' = "null"
  /\ retryInfo' = NoRetryInfo
  /\ transcript' = NoTranscript
  /\ allTranscripts' = NoCache
  /\ thumbnailUrl' = 0
  /\ videoMetadata' = 0
  /\ UNCHANGED <<status, url, format, availableLanguages, selectedLanguage, videoId,
                 transcriptId, isSaved, showErrorPopup>>
  /\ UNCHANGED authVars
  /\ UNCHANGED retryVars
  /\ UNCHANGED <<xpc, onRetry, attempt, lastError, notifications, delays, outcomes,
                 xresult, apiVars>>

\* handleSubmit, lines 118-160: extractTranscript resolved with r; a falsy r
\* makes result.transcripts throw, which the catch (174-190) reports
HomeResolved(r) ==
  /\ homePc = "extract"
  /\ IF r.shape = "null"
     THEN /\ error' = "Cannot read properties of null"
          /\ errorType' = "server"
          /\ showErrorPopup' = TRUE
          /\ loading' = FALSE
          /\ homePc' = "idle"
          /\ inflight' = {}
          /\ UNCHANGED <<allTranscripts, selectedLanguage, transcript, availableLanguages>>
     ELSE /\ homePc' = "metadata"
          /\ UNCHANGED <<loading, inflight>>
          /\ IF r.shape \in {"segmented", "hollow"}
             THEN /\ allTranscripts' = [sub |-> live, codes |-> r.transcripts]
                  /\ selectedLanguage' = homeLangToUse(r)
                  /\ transcript' = [sub |-> live, key |-> homeLangToUse(r),
                                    language |-> homeLangToUse(r),
                                    video_id |-> IF r.meta THEN live ELSE 0]
                  /\ availableLanguages' =
                       [sub |-> live,
                        codes |-> IF Len(r.available_languages) > 0
                                  THEN r.available_languages ELSE r.transcripts]
                  /\ UNCHANGED <<error, errorType, showErrorPopup>>
             ELSE IF r.shape = "legacy"
             THEN /\ transcript' = [sub |-> live, key |-> NoCode, language |-> NoCode,
                                    video_id |-> IF r.meta THEN live ELSE 0]
                  /\ UNCHANGED <<allTranscripts, selectedLanguage, availableLanguages,
                                 error, errorType, showErrorPopup>>
             ELSE /\ error' = "No transcript data returned"
                  /\ errorType' = "server"
                  /\ showErrorPopup' = TRUE
                  /\ UNCHANGED <<allTranscripts, selectedLanguage, transcript,
                                 availableLanguages>>
  /\ retryInfo' = NoRetryInfo
  /\ UNCHANGED <<status, url, format, videoId, thumbnailUrl, videoMetadata, transcriptId,
                 isSaved, subCount, live>>
  /\ UNCHANGED authVars
  /\ UNCHANGED retryVars
  /\ UNCHANGED <<xpc, onRetry, attempt, lastError, notifications, delays, outcomes,
                 xresult, apiVars>>

\* handleSubmit, lines 174-190: extractTranscript threw
HomeRejected(o) ==
  /\ homePc = "extract"
  /\ LET err == apiCaughtError(apiMakeRequest(o)) IN
       /\ error' = err.message
       /\ errorType' = IF err.status \in {400, 422} THEN "validation" ELSE "server"
  /\ retryInfo' = NoRetryInfo
  /\ showErrorPopup' = TRUE
  /\ loading' = FALSE
  /\ homePc' = "idle"
  /\ inflight' = {}
  /\ UNCHANGED <<status, url, format, transcript, allTranscripts, availableLanguages,
                 selectedLanguage, videoId, thumbnailUrl, videoMetadata, transcriptId,
                 isSaved, subCount, live>>
  /\ UNCHANGED authVars
  /\ UNCHANGED retryVars
  /\ UNCHANGED <<xpc, onRetry, attempt, lastError, notifications, delays, outcomes,
                 xresult, apiVars>>

\* handleSubmit, lines 162-173 and 188-190: getThumbnail and getMetadata have
\* settled (a failure of either is caught and gives null); loading ends
HomeMetadata(thumbnailResult, metadataResult) ==
  /\ homePc = "metadata"
  /\ thumbnailUrl' = IF thumbnailResult THEN live ELSE thumbnailUrl
  /\ videoMetadata' = IF metadataResult THEN live ELSE videoMetadata
  /\ loading' = FALSE
  /\ homePc' = "idle"
  /\ inflight' = {}
  /\ UNCHANGED <<status, url, format, transcript, allTranscripts, availableLanguages,
                 selectedLanguage, videoId, transcriptId, isSaved, error, errorType,
                 retryInfo, subCount, live, showErrorPopup>>
  /\ UNCHANGED authVars
  /\ UNCHANGED retryVars
  /\ UNCHANGED <<xpc, onRetry, attempt, lastError, notifications, delays, outcomes,
                 xresult, apiVars>>

\* ErrorPopup onClose, line 228
HomeClosePopup ==
  /\ showErrorPopup
  /\ showErrorPopup' = FALSE
  /\ UNCHANGED <<status, url, format, transcript, allTranscripts, availableLanguages,
                 selectedLanguage, videoId, thumbnailUrl, videoMetadata, transcriptId,
                 isSaved, error, errorType, retryInfo, subCount, inflight, live,
                 loading, homePc>>
  /\ UNCHANGED authVars
  /\ UNCHANGED retryVars
  /\ UNCHANGED <<xpc, onRetry, attempt, lastError, notifications, delays, outcomes,
                 xresult, apiVars>>

(***************************************************************************)
(* The useTranscriptExtractor whose handleSubmit retries empty responses   *)
(* (part_006), calling the retrying extractTranscript of part_005          *)
(***************************************************************************)
\* handleSubmit, line 245
maxEmptyRetries == 2

\* handleSubmit, lines 267 and 270
emptyRetryDelay == 1500

\* bodies extractTranscript resolves with, usable and not
SubmitResponses == {r \in HookResponses : r.transcripts \in {<<>>, <<EN>>}}

\* handleSubmit, lines 264-269
EmptyRetryInfo(n) ==
  [attempt |-> n + 1, maxRetries |-> maxEmptyRetries, delay |-> emptyRetryDelay,
   error |-> "Empty response, retrying..."]

\* a test that allows one retry more
EmptyRetryLeftOneMore(n) == n < maxEmptyRetries + 1

\* handleSubmit, line 262
EmptyRetryLeft(n) == n < maxEmptyRetries

\* handleSubmit calls extractTranscript(url, format, {}, onRetry, ...)
CallExtract ==
  /\ xpc' = "requesting"
  /\ onRetry' = TRUE
  /\ attempt' = 0
  /\ lastError' = NoError
  /\ notifications' = <<>>
  /\ delays' = <<>>
  /\ outcomes' = <<>>
  /\ xresult' = "none"
  /\ UNCHANGED apiVars

\* reset, lines 171-186
resetRetrying ==
  /\ status' = "idle"
  /\ transcript' = NoTranscript
  /\ allTranscripts' = NoCache
  /\ availableLanguages' = NoLanguages
  /\ selectedLanguage' = EN
  /\ videoId' = 0
  /\ thumbnailUrl' = 0
  /\ videoMetadata' = 0
  /\ transcriptId' = 0
  /\ isSaved' = FALSE
  /\ error' = "null"
  /\ errorType' = "null"
  /\ retryInfo' = NoRetryInfo
  /\ live' = 0
  /\ UNCHANGED <<format, subCount, inflight>>

\* handleUrlChange, lines 190-196
RetryingUrlChange(newUrl) ==
  /\ revision = "retrying"
  /\ url' = newUrl
  /\ IF newUrl # url
     THEN resetRetrying
     ELSE UNCHANGED <<status, format, transcript, allTranscripts, availableLanguages,
                      selectedLanguage, videoId, thumbnailUrl, videoMetadata,
                      transcriptId, isSaved, error, errorType, retryInfo, subCount,
                      inflight, live>>
  /\ UNCHANGED <<homeVars, retryVars>>
  /\ UNCHANGED authVars
  /\ UNCHANGED <<xpc, onRetry, attempt, lastError, notifications, delays, outcomes,
                 xresult, apiVars>>

\* clearError, lines 391-397
RetryingClearError ==
  /\ revision = "retrying"
  /\ clearError

\* handleSubmit, lines 233-252: up to the first await of extractTranscript
RetryingSubmit ==
  /\ revision = "retrying"
  /\ hpc = "idle"
  /\ subCount < MaxSubs
  /\ subCount' = subCount + 1
  /\ live' = subCount + 1
  /\ status' = "loading"
  /\ error' = "null"
  /\ errorType' = "null"
  /\ retryInfo' = NoRetryInfo
  /\ transcript' = NoTranscript
  /\ allTranscripts' = NoCache
  /\ thumbnailUrl' = 0
  /\ videoMetadata' = 0
  /\ transcriptId' = 0
  /\ isSaved' = FALSE
  /\ hpc' = "extracting"
  /\ submitAttempt' = 0
  /\ calls' = 1
  /\ CallExtract
  /\ UNCHANGED <<url, format, availableLanguages, selectedLanguage, videoId, inflight,
                 homeVars, revision, utilVars>>
  /\ UNCHANGED authVars

\* an attempt of extractTranscript fails; when it goes on to retry, its
\* onRetry callback (lines 250-252) stores the notification
SubmitAttemptFailed(o) ==
  /\ hpc = "extracting"
  /\ CatchBlock(o)
  /\ retryInfo' = IF xpc' = "delaying" THEN RetryInfo(attempt, lastError') ELSE retryInfo
  /\ UNCHANGED <<status, url, format, transcript, allTranscripts, availableLanguages,
                 selectedLanguage, videoId, thumbnailUrl, videoMetadata, transcriptId,
                 isSaved, error, errorType, subCount, inflight, live, homeVars,
                 retryVars>>

\* handleSubmit, lines 253-279 and 298-385: extractTranscript resolved with r
ExtractReturned(r) ==
  /\ hpc = "extracting"
  /\ xpc = "returned"
  /\ xpc' = "idle"
  /\ IF hasValidTranscriptData(r)
     THEN /\ retryInfo' = NoRetryInfo
          /\ StoreResult(subCount, r)
          /\ hpc' = "idle"
     ELSE IF EmptyRetryLeft(submitAttempt)
     THEN /\ retryInfo' = EmptyRetryInfo(submitAttempt)
          /\ hpc' = "emptyDelay"
          /\ UNCHANGED <<status, transcript, allTranscripts, availableLanguages,
                         selectedLanguage, videoId, thumbnailUrl, videoMetadata,
                         transcriptId, isSaved, error, errorType>>
     ELSE /\ retryInfo' = NoRetryInfo
          /\ error' = "No transcript data returned"
          /\ errorType' = "server"
          /\ status' = "error"
          /\ hpc' = "idle"
          /\ UNCHANGED <<transcript, allTranscripts, availableLanguages,
                         selectedLanguage, videoId, thumbnailUrl, videoMetadata,
                         transcriptId, isSaved>>
  /\ UNCHANGED <<url, format, subCount, inflight, live, homeVars, revision, utilVars,
                 submitAttempt, calls>>
  /\ UNCHANGED <<onRetry, attempt, lastError, notifications, delays, outcomes, xresult,
                 apiVars>>
  /\ UNCHANGED authVars

\* handleSubmit, lines 280-295: extractTranscript threw
ExtractThrew ==
  /\ hpc = "extracting"
  /\ xpc = "threw"
  /\ xpc' = "idle"
  /\ retryInfo' = NoRetryInfo
  /\ error' = lastError.message
  /\ errorType' = IF lastError.status \in {400, 422} THEN "validation" ELSE "server"
  /\ status' = "error"
  /\ hpc' = "idle"
  /\ UNCHANGED <<url, format, transcript, allTranscripts, availableLanguages,
                 selectedLanguage, videoId, thumbnailUrl, videoMetadata, transcriptId,
                 isSaved, subCount, inflight, live, homeVars, revision, utilVars, submitAttempt,
                 calls>>
  /\ UNCHANGED <<onRetry, attempt, lastError, notifications, delays, outcomes, xresult,
                 apiVars>>
  /\ UNCHANGED authVars

\* handleSubmit, lines 270 and 248-252: delay(1500) has elapsed, next call
EmptyDelayElapsed ==
  /\ hpc = "emptyDelay"
  /\ hpc' = "extracting"
  /\ submitAttempt' = submitAttempt + 1
  /\ calls' = calls + 1
  /\ CallExtract
  /\ UNCHANGED <<status, url, format, transcript, allTranscripts, availableLanguages,
                 selectedLanguage, videoId, thumbnailUrl, videoMetadata, transcriptId,
                 isSaved, error, errorType, retryInfo, subCount, inflight, live,
                 homeVars, revision, utilVars>>
  /\ UNCHANGED authVars

\* the single-request handleSubmit of hooks/useTranscriptExtractor.js
SingleSubmit == revision = "single" /\ handleSubmit

SingleResolved(s, r) == revision = "single" /\ SubmitResolved(s, r)

SingleRejected(s, o) == revision = "single" /\ SubmitRejected(s, o)

(***************************************************************************)
(* src/src/services/api.js: checkConnectivity, checkHealth, checkApiAuth   *)
(*                                                                         *)
(* Each function awaits fetch(..., {signal: AbortSignal.timeout(5000)})    *)
(* inside one try block; checkHealth also awaits response.json() there.    *)
(* The operators below give what the function returns for the way its      *)
(* awaited steps settled; the actions are the steps of one call.           *)
(***************************************************************************)
ProbeStep == 2500        \* ms per clock step of a probe

probeTimeout == 5000     \* AbortSignal.timeout(5000)

\* statuses the backend answers a probe with
ProbeStatuses == {200, 401, 422, 500}

\* response.ok
responseOk(st) == st \in 200..299

\* the catch block of the three functions: the failed result with the message
ProbeCaught(o) ==
  [settled |-> "resolved", ok |-> FALSE, status |-> 0, error |-> o.kind]

\* checkConnectivity, lines 60-81: any response counts as connected
checkConnectivity(o) ==
  IF o.kind = "response"
  THEN [settled |-> "resolved", ok |-> TRUE, status |-> o.status, error |-> "none"]
  ELSE ProbeCaught(o)

\* checkHealth whose response.json() is awaited outside the try block
checkHealthBodyUncaught(o) ==
  IF o.kind = "body"
  THEN [settled |-> "resolved", ok |-> TRUE, status |-> 0, error |-> "none"]
  ELSE IF o.kind = "response"
  THEN [settled |-> "resolved", ok |-> FALSE, status |-> o.status, error |-> "none"]
  ELSE IF o.kind = "SyntaxError"
  THEN [settled |-> "rejected", ok |-> FALSE, status |-> 0, error |-> o.kind]
  ELSE ProbeCaught(o)

\* checkHealth, lines 83-98: healthy only with an OK response whose body decodes
checkHealth(o) ==
  IF o.kind = "body"
  THEN [settled |-> "resolved", ok |-> TRUE, status |-> 0, error |-> "none"]
  ELSE IF o.kind = "response"
  THEN [settled |-> "resolved", ok |-> FALSE, status |-> o.status, error |-> "none"]
  ELSE ProbeCaught(o)

\* checkApiAuth, lines 100-121: authenticated unless the status is 401
checkApiAuth(o) ==
  IF o.kind = "response"
  THEN [settled |-> "resolved", ok |-> o.status # 401, status |-> o.status,
        error |-> "none"]
  ELSE ProbeCaught(o)

\* the call of probe p returns (or throws) for the outcome o
ProbeReturn(p, o) ==
  /\ probePc' = [probePc EXCEPT ![p] = "resolved"]
  /\ probeOutcome' = [probeOutcome EXCEPT ![p] = o]
  /\ probeResult' = [probeResult EXCEPT ![p] =
                      CASE p = "checkConnectivity" -> checkConnectivity(o)
                        [] p = "checkHealth" -> checkHealth(o)
                        [] p = "checkApiAuth" -> checkApiAuth(o)]
  /\ UNCHANGED probeElapsed

ProbeFrame ==
  /\ UNCHANGED authVars
  /\ UNCHANGED <<xpc, onRetry, attempt, lastError, notifications, delays, outcomes,
                 xresult, apiVars>>
  /\ UNCHANGED <<status, url, format, transcript, allTranscripts, availableLanguages,
                 selectedLanguage, videoId, thumbnailUrl, videoMetadata, transcriptId,
                 isSaved, error, errorType, retryInfo, subCount, inflight, live,
                 homeVars, revision, hpc, submitAttempt, calls>>
  /\ UNCHANGED formatVars

\* the diagnostic panel calls the function: fetch is issued, the timer starts
ProbeStart(p) ==
  /\ probePc[p] = "idle"
  /\ probePc' = [probePc EXCEPT ![p] = "fetching"]
  /\ probeElapsed' = [probeElapsed EXCEPT ![p] = 0]
  /\ probeOutcome' = [probeOutcome EXCEPT ![p] = NoOutcome]
  /\ probeResult' = [probeResult EXCEPT ![p] = NoProbeResult]
  /\ ProbeFrame

\* time passes while the fetch or the body read is pending
ProbeTick(p) ==
  /\ probePc[p] \in {"fetching", "reading"}
  /\ probeElapsed[p] < probeTimeout
  /\ probeElapsed' = [probeElapsed EXCEPT ![p] = probeElapsed[p] + ProbeStep]
  /\ UNCHANGED <<probePc, probeOutcome, probeResult>>
  /\ ProbeFrame

\* fetch resolves with a response before the timer fires
FetchResponds(p, st) ==
  /\ probePc[p] = "fetching"
  /\ probeElapsed[p] < probeTimeout
  /\ IF p = "checkHealth" /\ responseOk(st)
     THEN /\ probePc' = [probePc EXCEPT ![p] = "reading"]
          /\ probeOutcome' = [probeOutcome EXCEPT ![p] =
                               [kind |-> "response", status |-> st]]
          /\ UNCHANGED <<probeElapsed, probeResult>>
     ELSE ProbeReturn(p, [kind |-> "response", status |-> st])
  /\ ProbeFrame

\* fetch, or the body read, rejects with a transport failure
ProbeTransportFails(p) ==
  /\ probePc[p] \in {"fetching", "reading"}
  /\ probeElapsed[p] < probeTimeout
  /\ ProbeReturn(p, [kind |-> "TypeError", status |-> 0])
  /\ ProbeFrame

\* the timer of AbortSignal.timeout fires: the pending await rejects
ProbeTimesOut(p) ==
  /\ probePc[p] \in {"fetching", "reading"}
  /\ probeElapsed[p] >= probeTimeout
  /\ ProbeReturn(p, [kind |-> "TimeoutError", status |-> 0])
  /\ ProbeFrame

\* checkHealth, line 91: response.json() settles
HealthBodyRead(kind) ==
  /\ probePc["checkHealth"] = "reading"
  /\ probeElapsed["checkHealth"] < probeTimeout
  /\ ProbeReturn("checkHealth", [kind |-> kind, status |-> 0])
  /\ ProbeFrame

\* the panel has taken the result and may run the probe again
ProbeConsumed(p) ==
  /\ probePc[p] = "resolved"
  /\ probePc' = [probePc EXCEPT ![p] = "idle"]
  /\ UNCHANGED <<probeElapsed, probeOutcome, probeResult>>
  /\ ProbeFrame

\* a step of the call of p once it has been started
ProbeAdvance(p) ==
  \/ ProbeTick(p)
  \/ \E st \in ProbeStatuses : FetchResponds(p, st)
  \/ ProbeTransportFails(p)
  \/ ProbeTimesOut(p)
  \/ p = "checkHealth" /\ \E kind \in {"body", "SyntaxError"} : HealthBodyRead(kind)

(***************************************************************************)
(* src/unnamed/part_004 (utils/formatters.js): formatTime, segmentsToSrt,  *)
(* segmentsToVtt, segmentsToParagraphs.                                    *)
(*                                                                         *)
(* A time is a whole number of 1/Resolution seconds; a string is the       *)
(* sequence of its characters.                                             *)
(***************************************************************************)
Resolution == 2000    \* time units per second
MaxSegments == 3      \* longest segment list explored

Undefined == 0 - 1    \* a field the segment does not have

DigitChars == <<"0", "1", "2", "3", "4", "5", "6", "7", "8", "9">>

RECURSIVE Digits(_)
\* String(n) of a non-negative integer
Digits(n) ==
  IF n < 10 THEN <<DigitChars[n + 1]>>
  ELSE Digits(n \div 10) \o <<DigitChars[(n % 10) + 1]>>

\* s.padStart(width, ch)
padStart(s, width, ch) ==
  IF Len(s) >= width THEN s ELSE [i \in 1..(width - Len(s)) |-> ch] \o s

\* Math.round of the non-negative fraction a / b
Round(a, b) == (2 * a + b) \div (2 * b)

\* formatTime(seconds, forVtt), lines 89-96
formatTime(seconds, forVtt) ==
  LET hrs == seconds \div (3600 * Resolution)
      mins == (seconds % (3600 * Resolution)) \div (60 * Resolution)
      secs == (seconds % (60 * Resolution)) \div Resolution
      ms == Round((seconds % Resolution) * 1000, Resolution)
      separator == IF forVtt THEN "." ELSE ","
  IN  padStart(Digits(hrs), 2, "0") \o <<":">> \o padStart(Digits(mins), 2, "0")
        \o <<":">> \o padStart(Digits(secs), 2, "0") \o <<separator>>
        \o padStart(Digits(ms), 3, "0")

RECURSIVE Join(_, _)
\* parts.join(sep)
Join(parts, sep) ==
  IF Len(parts) = 0 THEN <<>>
  ELSE IF Len(parts) = 1 THEN parts[1]
  ELSE parts[1] \o sep \o Join(Tail(parts), sep)

\* seg.end || seg.start + seg.duration
segEnd(seg) ==
  IF seg.end # Undefined /\ seg.end # 0 THEN seg.end ELSE seg.start + seg.duration

\* segmentsToSrt that numbers the cues from 0
segmentsToSrtZeroBased(segments) ==
  Join([i \in 1..Len(segments) |->
          Digits(i - 1) \o <<"\n">> \o formatTime(segments[i].start, FALSE)
            \o <<" ", "-", "-", ">", " ">> \o formatTime(segEnd(segments[i]), FALSE)
            \o <<"\n">> \o segments[i].text \o <<"\n">>],
       <<"\n">>)

\* segmentsToSrt(segments), lines 101-107
segmentsToSrt(segments) ==
  Join([i \in 1..Len(segments) |->
          Digits(i) \o <<"\n">> \o formatTime(segments[i].start, FALSE)
            \o <<" ", "-", "-", ">", " ">> \o formatTime(segEnd(segments[i]), FALSE)
            \o <<"\n">> \o segments[i].text \o <<"\n">>],
       <<"\n">>)

\* segmentsToVtt(segments), lines 112-119
segmentsToVtt(segments) ==
  LET cues == Join([i \in 1..Len(segments) |->
                      formatTime(segments[i].start, TRUE)
                        \o <<" ", "-", "-", ">", " ">>
                        \o formatTime(segEnd(segments[i]), TRUE)
                        \o <<"\n">> \o segments[i].text \o <<"\n">>],
                   <<"\n">>)
  IN  <<"W", "E", "B", "V", "T", "T", "\n", "\n">> \o cues

RECURSIVE trimStart(_)
trimStart(text) ==
  IF Len(text) > 0 /\ text[1] = " " THEN trimStart(Tail(text)) ELSE text

RECURSIVE trimEnd(_)
trimEnd(text) ==
  IF Len(text) > 0 /\ text[Len(text)] = " "
  THEN trimEnd(SubSeq(text, 1, Len(text) - 1)) ELSE text

\* text.trim()
trim(text) == trimEnd(trimStart(text))

SentenceMarks == {".", "!", "?"}

\* endsWithSentence(text): /[.!?]["']?\s*$/ on the trimmed text
endsWithSentence(text) ==
  LET t == trim(text)
      n == Len(t)
  IN  \/ n >= 1 /\ t[n] \in SentenceMarks
      \/ n >= 2 /\ t[n] \in {"\"", "'"} /\ t[n - 1] \in SentenceMarks

\* (text.match(/[.!?]+/g) || []).length: the runs of sentence marks
sentences(text) ==
  Cardinality({i \in 1..Len(text) :
                 /\ text[i] \in SentenceMarks
                 /\ (i = 1 \/ text[i - 1] \notin SentenceMarks)})

\* hasTimeGapAfter that takes any pause as a gap
hasTimeGapAfterAnyPause(segments, i) ==
  /\ i < Len(segments)
  /\ segments[i + 1].start - segEnd(segments[i]) > 0

\* hasTimeGapAfter, line 154: more than 2 seconds to the next segment
hasTimeGapAfter(segments, i) ==
  /\ i < Len(segments)
  /\ segments[i + 1].start - segEnd(segments[i]) > 2 * Resolution

\* currentParagraph.join(' ') of the segments whose indices are in group
paragraphText(segments, group) ==
  Join([k \in 1..Len(group) |-> trim(segments[group[k]].text)], <<" ">>)

RECURSIVE paragraphLoop(_, _, _, _, _)
\* the for loop of lines 144-170 from segment i on, and the flush of 173-175;
\* a paragraph is kept as the indices of its segments
paragraphLoop(segments, i, paragraphs, currentParagraph, sentenceCount) ==
  IF i > Len(segments)
  THEN IF Len(currentParagraph) > 0 THEN Append(paragraphs, currentParagraph)
       ELSE paragraphs
  ELSE LET current == Append(currentParagraph, i)
           count == sentenceCount + sentences(trim(segments[i].text))
       IN  IF /\ endsWithSentence(paragraphText(segments, current))
              /\ (hasTimeGapAfter(segments, i) \/ count >= 4)
           THEN paragraphLoop(segments, i + 1, Append(paragraphs, current), <<>>, 0)
           ELSE paragraphLoop(segments, i + 1, paragraphs, current, count)

\* the segments of each paragraph segmentsToParagraphs builds
paragraphGroups(segments) == paragraphLoop(segments, 1, <<>>, <<>>, 0)

\* segmentsToParagraphs(segments), lines 134-179
segmentsToParagraphs(segments) ==
  LET groups == paragraphGroups(segments)
  IN  [k \in 1..Len(groups) |-> paragraphText(segments, groups[k])]

\* segment shapes explored: the text, the pause after the segment, and
\* whether the segment carries end or only duration
SegmentShapes ==
  {[text |-> <<"a", ".">>, gap |-> 2 * Resolution + 1, hasEnd |-> FALSE],
   [text |-> <<"a", ".">>, gap |-> 0, hasEnd |-> TRUE],
   [text |-> <<"a">>, gap |-> 2 * Resolution + 1, hasEnd |-> FALSE],
   [text |-> <<"a", ".", " ", "b", "?">>, gap |-> 0, hasEnd |-> FALSE],
   [text |-> <<"a", ".", ".", ".", "\"">>, gap |-> 2 * Resolution, hasEnd |-> TRUE],
   [text |-> <<" ", "a", "!", " ">>, gap |-> 0, hasEnd |-> FALSE],
   [text |-> <<>>, gap |-> 2 * Resolution + 1, hasEnd |-> TRUE],
   [text |-> <<"a">>, gap |-> 0, hasEnd |-> FALSE]}

\* every segment lasts 1.5 s
SegmentDuration == Resolution + Resolution \div 2

RECURSIVE startOf(_, _)
\* the first segment starts at 0.5 s, each next one after the pause
startOf(shapes, i) ==
  IF i = 1 THEN Resolution \div 2
  ELSE startOf(shapes, i - 1) + SegmentDuration + shapes[i - 1].gap

makeSegments(shapes) ==
  [i \in 1..Len(shapes) |->
     [text |-> shapes[i].text,
      start |-> startOf(shapes, i),
      end |-> IF shapes[i].hasEnd THEN startOf(shapes, i) + SegmentDuration
              ELSE Undefined,
      duration |-> IF shapes[i].hasEnd THEN Undefined ELSE SegmentDuration]]

RECURSIVE shapeLists(_)
\* the lists of at most n shapes
shapeLists(n) ==
  IF n = 0 THEN {<<>>}
  ELSE LET shorter == shapeLists(n - 1)
       IN  shorter \cup {Append(l, x) : l \in shorter, x \in SegmentShapes}

SegmentLists == {makeSegments(shapes) : shapes \in shapeLists(MaxSegments)}

\* times given to formatTime: around the second, the minute and the hour,
\* and fractions that round down, up, and up to a whole second
TimeSamples ==
  {0, 1, Resolution \div 2, Resolution - 2, Resolution - 1,
   Resolution, 59 * Resolution + Resolution - 1, 60 * Resolution,
   3599 * Resolution + Resolution \div 4, 3600 * Resolution,
   360000 * Resolution + 61 * Resolution}

FormatFrame ==
  /\ UNCHANGED authVars
  /\ UNCHANGED <<xpc, onRetry, attempt, lastError, notifications, delays, outcomes,
                 xresult, apiVars>>
  /\ UNCHANGED <<status, url, format, transcript, allTranscripts, availableLanguages,
                 selectedLanguage, videoId, thumbnailUrl, videoMetadata, transcriptId,
                 isSaved, error, errorType, retryInfo, subCount, inflight, live,
                 homeVars, revision, hpc, submitAttempt, calls>>
  /\ UNCHANGED probeVars

FormatTime(seconds, forVtt) ==
  /\ fmtOp' = "formatTime"
  /\ fmtArg' = [seconds |-> seconds, forVtt |-> forVtt]
  /\ fmtOut' = formatTime(seconds, forVtt)
  /\ UNCHANGED fmtSegments
  /\ FormatFrame

SegmentsToSrt ==
  /\ fmtOp' = "segmentsToSrt"
  /\ fmtOut' = segmentsToSrt(fmtSegments)
  /\ fmtArg' = [seconds |-> 0, forVtt |-> FALSE]
  /\ UNCHANGED fmtSegments
  /\ FormatFrame

SegmentsToVtt ==
  /\ fmtOp' = "segmentsToVtt"
  /\ fmtOut' = segmentsToVtt(fmtSegments)
  /\ fmtArg' = [seconds |-> 0, forVtt |-> FALSE]
  /\ UNCHANGED fmtSegments
  /\ FormatFrame

SegmentsToParagraphs ==
  /\ fmtOp' = "segmentsToParagraphs"
  /\ fmtOut' = segmentsToParagraphs(fmtSegments)
  /\ fmtArg' = [seconds |-> 0, forVtt |-> FALSE]
  /\ UNCHANGED fmtSegments
  /\ FormatFrame

(***************************************************************************)
(* Specifications                                                          *)
(***************************************************************************)
AuthNext ==
  \/ InitEffect
  \/ Login
  \/ Logout
  \/ Tick
  \/ \E c \in Callers : Render(c)
  \/ \E c \in Callers : CallValid(c)
  \/ \E c \in Callers : CallNoRefreshToken(c)
  \/ \E c \in Callers : CallWait(c)
  \/ \E c \in Callers : WaitDone(c)
  \/ \E c \in Callers : CallRefresh(c)
  \/ \E c \in Callers : RefreshOk(c)
  \/ \E c \in Callers : RefreshFail(c)
  \/ \E c \in Callers : Finish(c)

\* the credential life cycle, from every content of localStorage
AuthSpec == AuthInit /\ [][AuthNext]_vars

ExtractNext ==
  \/ \E cb \in BOOLEAN : ExtractStart(cb)
  \/ RequestOk
  \/ \E o \in FailOutcomes : RequestFail(o)
  \/ DelayElapsed

\* one call of extractTranscript, for every list of attempt outcomes
ExtractSpec == ExtractInit /\ [][ExtractNext]_vars

\* another component, whose refresh the extractor's closure may see in flight
Others == {2}

ApiNext ==
  \/ InitEffect
  \/ Tick
  \/ \E c \in {Extractor} \cup Others : Render(c)
  \/ \E c \in Others : CallRefresh(c)
  \/ \E c \in Others : RefreshOk(c)
  \/ \E c \in Others : RefreshFail(c)
  \/ \E c \in Others : Finish(c)
  \/ \E auth \in BOOLEAN : ApiStart(auth)
  \/ TokenValid
  \/ TokenNoRefreshToken
  \/ TokenWait
  \/ TokenWaitDone
  \/ TokenRefresh
  \/ TokenRefreshOk
  \/ TokenRefreshFail
  \/ MakeRequestSend
  \/ ApiRequestOk
  \/ \E o \in FailOutcomes : ApiRequestFail(o)

\* extractTranscript of api.js with the session of AuthContext.jsx
ApiSpec == AuthInit /\ [][ApiNext]_vars

OrchNext ==
  \/ InitEffect
  \/ Tick
  \/ OrchRender
  \/ \E auth \in BOOLEAN : OrchStart(auth)
  \/ TokenValid
  \/ TokenNoRefreshToken
  \/ TokenRefresh
  \/ TokenRefreshOk
  \/ TokenRefreshFail
  \/ MakeRequestSend
  \/ RequestOk
  \/ \E o \in OrchOutcomes : RequestFail(o)
  \/ OrchDelayElapsed

\* one orchestrated extraction with the session of AuthContext.jsx
OrchSpec == AuthInit /\ [][OrchNext]_vars

\* no session, nothing extracted: the hook as mounted
HookInit ==
  /\ now = StartNow
  /\ loggedOut = FALSE
  /\ accessToken = Null
  /\ refreshTokenValue = Null
  /\ user = 0
  /\ isLoading = TRUE
  /\ isRefreshing = FALSE
  /\ lsAccess = Null
  /\ lsRefresh = Null
  /\ lsUser = 0
  /\ nextPair = 2
  /\ pc = [c \in Callers |-> "idle"]
  /\ snap = [c \in Callers |->
              [accessToken |-> Null, refreshTokenValue |-> Null, isRefreshing |-> FALSE]]
  /\ result = [c \in Callers |-> Null]
  /\ posts = [c \in Callers |-> 0]
  /\ xpc = "idle"
  /\ onRetry = FALSE
  /\ attempt = 0
  /\ lastError = NoError
  /\ notifications = <<>>
  /\ delays = <<>>
  /\ outcomes = <<>>
  /\ xresult = "none"
  /\ withAuth = FALSE
  /\ headers = <<>>
  /\ tokenCalls = 0
  /\ tokenFailed = FALSE
  /\ status = "idle"
  /\ url = ""
  /\ format = "txt"
  /\ transcript = NoTranscript
  /\ allTranscripts = NoCache
  /\ availableLanguages = NoLanguages
  /\ selectedLanguage = EN
  /\ videoId = 0
  /\ thumbnailUrl = 0
  /\ videoMetadata = 0
  /\ transcriptId = 0
  /\ isSaved = FALSE
  /\ error = "null"
  /\ errorType = "null"
  /\ retryInfo = [attempt |-> 0, maxRetries |-> 0, delay |-> 0, error |-> "null"]
  /\ subCount = 0
  /\ inflight = {}
  /\ live = 0
  /\ loading = FALSE
  /\ showErrorPopup = FALSE
  /\ homePc = "idle"
  /\ revision = "single"
  /\ hpc = "idle"
  /\ submitAttempt = 0
  /\ calls = 0
  /\ probePc = [p \in Probes |-> "idle"]
  /\ probeElapsed = [p \in Probes |-> 0]
  /\ probeOutcome = [p \in Probes |-> NoOutcome]
  /\ probeResult = [p \in Probes |-> NoProbeResult]
  /\ fmtSegments = <<>>
  /\ fmtOp = "none"
  /\ fmtArg = [seconds |-> 0, forVtt |-> FALSE]
  /\ fmtOut = <<>>

HookNext ==
  \/ Reset
  \/ \E newUrl \in Urls : handleUrlChange(newUrl)
  \/ \E newFormat \in Formats : handleFormatChange(newFormat)
  \/ \E langCode \in LangCodes : handleLanguageChange(langCode)
  \/ clearError
  \/ handleSubmit
  \/ \E s \in Subs, o \in HookOutcomes : SubmitRejected(s, o)
  \/ \E s \in Subs, r \in HookResponses : SubmitResolved(s, r)

\* the hook under every order of its handlers and of the responses
HookSpec == HookInit /\ [][HookNext]_vars

\* the awaited extractTranscript of submission s settles
SubmitSettles(s) ==
  \/ \E o \in HookOutcomes : SubmitRejected(s, o)
  \/ \E r \in HookResponses : SubmitResolved(s, r)

\* every extractTranscript call settles; what the user does is not forced
HookLiveSpec == HookSpec /\ \A s \in Subs : WF_vars(SubmitSettles(s))

HomeNext ==
  \/ \E newUrl \in Urls : HomeUrlChange(newUrl)
  \/ \E langCode \in LangCodes : HomeLanguageChange(langCode)
  \/ HomeSubmit
  \/ \E r \in HookResponses : HomeResolved(r)
  \/ \E o \in HookOutcomes : HomeRejected(o)
  \/ \E t \in BOOLEAN, m \in BOOLEAN : HomeMetadata(t, m)
  \/ HomeClosePopup

\* the page under every order of its handlers and of the responses
HomeSpec == HookInit /\ [][HomeNext]_vars

\* either revision of the hook as mounted
SubmitInit ==
  /\ now = StartNow
  /\ loggedOut = FALSE
  /\ accessToken = Null
  /\ refreshTokenValue = Null
  /\ user = 0
  /\ isLoading = TRUE
  /\ isRefreshing = FALSE
  /\ lsAccess = Null
  /\ lsRefresh = Null
  /\ lsUser = 0
  /\ nextPair = 2
  /\ pc = [c \in Callers |-> "idle"]
  /\ snap = [c \in Callers |->
              [accessToken |-> Null, refreshTokenValue |-> Null, isRefreshing |-> FALSE]]
  /\ result = [c \in Callers |-> Null]
  /\ posts = [c \in Callers |-> 0]
  /\ xpc = "idle"
  /\ onRetry = FALSE
  /\ attempt = 0
  /\ lastError = NoError
  /\ notifications = <<>>
  /\ delays = <<>>
  /\ outcomes = <<>>
  /\ xresult = "none"
  /\ withAuth = FALSE
  /\ headers = <<>>
  /\ tokenCalls = 0
  /\ tokenFailed = FALSE
  /\ status = "idle"
  /\ url = ""
  /\ format = "txt"
  /\ transcript = NoTranscript
  /\ allTranscripts = NoCache
  /\ availableLanguages = NoLanguages
  /\ selectedLanguage = EN
  /\ videoId = 0
  /\ thumbnailUrl = 0
  /\ videoMetadata = 0
  /\ transcriptId = 0
  /\ isSaved = FALSE
  /\ error = "null"
  /\ errorType = "null"
  /\ retryInfo = [attempt |-> 0, maxRetries |-> 0, delay |-> 0, error |-> "null"]
  /\ subCount = 0
  /\ inflight = {}
  /\ live = 0
  /\ loading = FALSE
  /\ showErrorPopup = FALSE
  /\ homePc = "idle"
  /\ revision \in {"single", "retrying"}
  /\ hpc = "idle"
  /\ submitAttempt = 0
  /\ calls = 0
  /\ probePc = [p \in Probes |-> "idle"]
  /\ probeElapsed = [p \in Probes |-> 0]
  /\ probeOutcome = [p \in Probes |-> NoOutcome]
  /\ probeResult = [p \in Probes |-> NoProbeResult]
  /\ fmtSegments = <<>>
  /\ fmtOp = "none"
  /\ fmtArg = [seconds |-> 0, forVtt |-> FALSE]
  /\ fmtOut = <<>>

SubmitNext ==
  \/ \E newUrl \in Urls : RetryingUrlChange(newUrl)
  \/ RetryingClearError
  \/ RetryingSubmit
  \/ RequestOk
  \/ \E o \in OrchOutcomes : SubmitAttemptFailed(o)
  \/ DelayElapsed
  \/ \E r \in SubmitResponses : ExtractReturned(r)
  \/ ExtractThrew
  \/ EmptyDelayElapsed
  \/ SingleSubmit
  \/ \E s \in Subs, r \in SubmitResponses : SingleResolved(s, r)
  \/ \E s \in Subs, o \in OrchOutcomes : SingleRejected(s, o)

\* submissions through either handleSubmit, under every list of outcomes
SubmitSpec == SubmitInit /\ [][SubmitNext]_vars

\* the diagnostic panel: the three probes run side by side
ProbeInit ==
  /\ now = StartNow
  /\ loggedOut = FALSE
  /\ accessToken = Null
  /\ refreshTokenValue = Null
  /\ user = 0
  /\ isLoading = TRUE
  /\ isRefreshing = FALSE
  /\ lsAccess = Null
  /\ lsRefresh = Null
  /\ lsUser = 0
  /\ nextPair = 2
  /\ pc = [c \in Callers |-> "idle"]
  /\ snap = [c \in Callers |->
              [accessToken |-> Null, refreshTokenValue |-> Null, isRefreshing |-> FALSE]]
  /\ result = [c \in Callers |-> Null]
  /\ posts = [c \in Callers |-> 0]
  /\ xpc = "idle"
  /\ onRetry = FALSE
  /\ attempt = 0
  /\ lastError = NoError
  /\ notifications = <<>>
  /\ delays = <<>>
  /\ outcomes = <<>>
  /\ xresult = "none"
  /\ withAuth = FALSE
  /\ headers = <<>>
  /\ tokenCalls = 0
  /\ tokenFailed = FALSE
  /\ status = "idle"
  /\ url = ""
  /\ format = "txt"
  /\ transcript = [sub |-> 0, key |-> <<>>, language |-> <<>>, video_id |-> 0]
  /\ allTranscripts = [sub |-> 0, codes |-> <<>>]
  /\ availableLanguages = [sub |-> 0, codes |-> <<>>]
  /\ selectedLanguage = <<"e", "n">>
  /\ videoId = 0
  /\ thumbnailUrl = 0
  /\ videoMetadata = 0
  /\ transcriptId = 0
  /\ isSaved = FALSE
  /\ error = "null"
  /\ errorType = "null"
  /\ retryInfo = [attempt |-> 0, maxRetries |-> 0, delay |-> 0, error |-> "null"]
  /\ subCount = 0
  /\ inflight = {}
  /\ live = 0
  /\ loading = FALSE
  /\ showErrorPopup = FALSE
  /\ homePc = "idle"
  /\ revision = "single"
  /\ hpc = "idle"
  /\ submitAttempt = 0
  /\ calls = 0
  /\ probePc = [p \in Probes |-> "idle"]
  /\ probeElapsed = [p \in Probes |-> 0]
  /\ probeOutcome = [p \in Probes |-> NoOutcome]
  /\ probeResult = [p \in Probes |-> NoProbeResult]
  /\ fmtSegments = <<>>
  /\ fmtOp = "none"
  /\ fmtArg = [seconds |-> 0, forVtt |-> FALSE]
  /\ fmtOut = <<>>

ProbeNext ==
  \/ \E p \in Probes : ProbeStart(p)
  \/ \E p \in Probes : ProbeTick(p)
  \/ \E p \in Probes, st \in ProbeStatuses : FetchResponds(p, st)
  \/ \E p \in Probes : ProbeTransportFails(p)
  \/ \E p \in Probes : ProbeTimesOut(p)
  \/ \E kind \in {"body", "SyntaxError"} : HealthBodyRead(kind)
  \/ \E p \in Probes : ProbeConsumed(p)

ProbeSpec == ProbeInit /\ [][ProbeNext]_vars

\* timers fire and a settled promise runs its continuation: a started call
\* keeps taking steps
ProbeLiveSpec == ProbeSpec /\ \A p \in Probes : WF_vars(ProbeAdvance(p))

\* the result view: the formatters applied to the segments on display
FormatInit ==
  /\ now = StartNow
  /\ loggedOut = FALSE
  /\ accessToken = Null
  /\ refreshTokenValue = Null
  /\ user = 0
  /\ isLoading = TRUE
  /\ isRefreshing = FALSE
  /\ lsAccess = Null
  /\ lsRefresh = Null
  /\ lsUser = 0
  /\ nextPair = 2
  /\ pc = [c \in Callers |-> "idle"]
  /\ snap = [c \in Callers |->
              [accessToken |-> Null, refreshTokenValue |-> Null, isRefreshing |-> FALSE]]
  /\ result = [c \in Callers |-> Null]
  /\ posts = [c \in Callers |-> 0]
  /\ xpc = "idle"
  /\ onRetry = FALSE
  /\ attempt = 0
  /\ lastError = NoError
  /\ notifications = <<>>
  /\ delays = <<>>
  /\ outcomes = <<>>
  /\ xresult = "none"
  /\ withAuth = FALSE
  /\ headers = <<>>
  /\ tokenCalls = 0
  /\ tokenFailed = FALSE
  /\ status = "idle"
  /\ url = ""
  /\ format = "txt"
  /\ transcript = [sub |-> 0, key |-> <<>>, language |-> <<>>, video_id |-> 0]
  /\ allTranscripts = [sub |-> 0, codes |-> <<>>]
  /\ availableLanguages = [sub |-> 0, codes |-> <<>>]
  /\ selectedLanguage = <<"e", "n">>
  /\ videoId = 0
  /\ thumbnailUrl = 0
  /\ videoMetadata = 0
  /\ transcriptId = 0
  /\ isSaved = FALSE
  /\ error = "null"
  /\ errorType = "null"
  /\ retryInfo = [attempt |-> 0, maxRetries |-> 0, delay |-> 0, error |-> "null"]
  /\ subCount = 0
  /\ inflight = {}
  /\ live = 0
  /\ loading = FALSE
  /\ showErrorPopup = FALSE
  /\ homePc = "idle"
  /\ revision = "single"
  /\ hpc = "idle"
  /\ submitAttempt = 0
  /\ calls = 0
  /\ probePc = [p \in Probes |-> "idle"]
  /\ probeElapsed = [p \in Probes |-> 0]
  /\ probeOutcome = [p \in Probes |-> NoOutcome]
  /\ probeResult = [p \in Probes |-> NoProbeResult]
  /\ fmtSegments \in SegmentLists
  /\ fmtOp = "none"
  /\ fmtArg = [seconds |-> 0, forVtt |-> FALSE]
  /\ fmtOut = <<>>

FormatNext ==
  \/ \E seconds \in TimeSamples, forVtt \in BOOLEAN : FormatTime(seconds, forVtt)
  \/ SegmentsToSrt
  \/ SegmentsToVtt
  \/ SegmentsToParagraphs

FormatSpec == FormatInit /\ [][FormatNext]_vars

(***************************************************************************)
(* Properties of the credential life cycle (checked under AuthSpec)        *)
(***************************************************************************)
\* the closure of caller c holds an access token outside the expiry buffer
AccessValid(c) ==
  snap[c].accessToken # Null /\ ~isTokenExpired(snap[c].accessToken, BufferSeconds)

Cleared ==
  /\ accessToken = Null /\ refreshTokenValue = Null /\ user = 0
  /\ lsAccess = Null /\ lsRefresh = Null /\ lsUser = 0

\* C1: while one refresh is in flight no further getAccessToken call starts
\* a refresh: at most one POST /auth/refresh is outstanding at any time.
C1_SingleFlight == Cardinality({c \in Callers : pc[c] = "refreshing"}) <= 1

\* C2: a call that found a refresh in flight resolves only once no refresh
\* is in flight any more, and not with the expiring (or absent) access token
\* its closure held.
C2_WaiterGetsRefreshOutcome ==
  [][\A c \in Callers :
       (pc[c] = "waiting" /\ pc'[c] = "returned")
         => /\ \A d \in Callers : pc[d] # "refreshing"
            /\ result'[c] # snap[c].accessToken]_vars

\* C3: when the refresh exchange of a call ends without a new pair, the call
\* throws, memory and storage hold no access token, refresh token or user,
\* and the call has issued exactly one POST /auth/refresh; no call ever
\* issues a second one.
C3_RejectedRefreshClears ==
  [][\A c \in Callers :
       /\ posts'[c] <= 1
       /\ (pc[c] = "refreshing" /\ pc'[c] # "refreshing" /\ nextPair' = nextPair)
            => (pc'[c] = "threw" /\ Cleared' /\ posts'[c] = 1 /\ ~isRefreshing')]_vars

C3_Witness ==
  \E c \in Callers : pc[c] = "threw" /\ posts[c] = 1 /\ Cleared /\ nextPair > 2

\* both tokens held (in memory, in storage) come from the same issued pair
PairWhole ==
  /\ (accessToken # Null /\ refreshTokenValue # Null)
       => accessToken.pair = refreshTokenValue.pair
  /\ (lsAccess # Null /\ lsRefresh # Null) => lsAccess.pair = lsRefresh.pair

\* C4: the call whose refresh exchange succeeds returns the access token of
\* the response, and memory and storage then hold the access and the refresh
\* token of that response; in every state the access and refresh token held
\* together belong to one pair.
C4_RefreshReplacesBoth ==
  [][/\ \A c \in Callers :
          (pc[c] = "refreshing" /\ pc'[c] = "returned")
            => /\ result'[c] = IssuedPair.access_token
               /\ accessToken' = IssuedPair.access_token
               /\ refreshTokenValue' = IssuedPair.refresh_token
               /\ lsAccess' = IssuedPair.access_token
               /\ lsRefresh' = IssuedPair.refresh_token
     /\ PairWhole']_vars

C4_Witness ==
  \E c \in Callers :
    /\ pc[c] = "returned" /\ posts[c] = 1
    /\ snap[c].refreshTokenValue.pair = 1 /\ snap[c].accessToken = Null
    /\ result[c].pair = 2 /\ accessToken = result[c]
    /\ refreshTokenValue.pair = 2 /\ lsAccess.pair = 2 /\ lsRefresh.pair = 2

\* C5: a call whose closure holds an access token outside the 60 s buffer
\* returns that token, a call without such a token and without a refresh
\* token returns null; a call that returns at once does so for one of these
\* two reasons, has issued no POST and has changed no credential state.
C5_FastPaths ==
  [][\A c \in Callers :
       (pc[c] = "idle" /\ pc'[c] # "idle")
         => /\ AccessValid(c)
                 => (pc'[c] = "returned" /\ result'[c] = snap[c].accessToken)
            /\ (~AccessValid(c) /\ snap[c].refreshTokenValue = Null)
                 => (pc'[c] = "returned" /\ result'[c] = Null)
            /\ pc'[c] = "returned"
                 => /\ AccessValid(c) \/ snap[c].refreshTokenValue = Null
                    /\ posts'[c] = 0
                    /\ \A d \in Callers : pc'[d] # "refreshing" \/ pc[d] = "refreshing"
                    /\ UNCHANGED <<accessToken, refreshTokenValue, user, isRefreshing,
                                   lsAccess, lsRefresh, lsUser, nextPair>>]_vars

C5_Witness ==
  /\ \E c \in Callers :
       pc[c] = "returned" /\ posts[c] = 0 /\ result[c] # Null /\ result[c] = accessToken
  /\ \E d \in Callers :
       /\ pc[d] = "returned" /\ posts[d] = 0 /\ result[d] = Null
       /\ snap[d].refreshTokenValue = Null /\ ~AccessValid(d)

\* C6: with the access token expiring and the refresh token expired, the
\* credentials are cleared and no POST /auth/refresh is issued, at mount from
\* the stored tokens and in a later getAccessToken call alike.
C6_ExpiredRefreshSkipsNetwork ==
  [][/\ (/\ isLoading /\ ~isLoading'
         /\ lsAccess # Null /\ lsRefresh # Null
         /\ isTokenExpired(lsAccess, BufferSeconds) /\ isTokenExpired(lsRefresh, 0))
          => (Cleared' /\ \A c \in Callers : pc'[c] # "refreshing")
     /\ \A c \in Callers :
          (/\ pc[c] = "idle" /\ pc'[c] # "idle"
           /\ ~AccessValid(c)
           /\ snap[c].refreshTokenValue # Null
           /\ isTokenExpired(snap[c].refreshTokenValue, 0))
            => /\ pc'[c] # "refreshing" /\ posts'[c] = 0
               /\ accessToken' = Null /\ refreshTokenValue' = Null]_vars

\* C20 as stated: the manager holds both tokens or none, never exactly one.
C20_PairAbsentOrComplete == (accessToken = Null) <=> (refreshTokenValue = Null)

\* C20 as amended: the manager never holds an access token without a refresh
\* token (it may hold the refresh token alone, from mount with an expired
\* access token until the first refresh), and the init effect loads nothing
\* from a storage that holds exactly one of the two tokens.
C20_NoAccessWithoutRefresh ==
  [][/\ accessToken' # Null => refreshTokenValue' # Null
     /\ (isLoading /\ ~isLoading' /\ ((lsAccess = Null) # (lsRefresh = Null)))
          => (accessToken' = Null /\ refreshTokenValue' = Null /\ user' = 0)]_vars

C20_Witness ==
  /\ ~isLoading /\ lsAccess # Null /\ lsRefresh = Null
  /\ accessToken = Null /\ refreshTokenValue = Null /\ nextPair = 2

(***************************************************************************)
(* Properties of extractTranscript (checked under ExtractSpec)             *)
(***************************************************************************)
IsNonRetryable(o) == o.kind = "response" /\ o.status \in {400, 401, 403, 404, 422}

IsListedRetryable(o) ==
  (o.kind = "response" /\ o.status \in {429, 500, 502, 503}) \/ o.kind = "TypeError"

Schedule == <<2000, 4000, 8000>>

\* C7: a 400, 401, 403, 404 or 422 response is the last attempt: the call
\* has thrown that error marked non-retryable, nothing was scheduled or
\* notified after it, and as first response it leaves one attempt, no delay
\* and no notification.
C7_NonRetryableEnds ==
  \A i \in 1..Len(outcomes) :
    IsNonRetryable(outcomes[i])
      => /\ i = Len(outcomes)
         /\ xpc = "threw"
         /\ lastError.retryable = "false"
         /\ lastError.status = outcomes[i].status
         /\ Len(delays) = i - 1
         /\ Len(notifications) <= i - 1
         /\ i = 1 => (delays = <<>> /\ notifications = <<>>)

C7_Witness ==
  /\ xpc = "threw" /\ Len(outcomes) = 1 /\ IsNonRetryable(outcomes[1])
  /\ delays = <<>> /\ notifications = <<>>

NotifiedPerDelay ==
  /\ Len(notifications) = Len(delays)
  /\ \A k \in 1..Len(notifications) :
       notifications[k] =
         [attempt |-> k, maxRetries |-> 3, delay |-> Schedule[k],
          error |-> CaughtError(makeRequest(outcomes[k])).message]
  /\ xpc = "returned"
       => (xresult = "payload" /\ Len(notifications) = Len(outcomes) - 1)

\* C9 as stated: each backoff delay is preceded by exactly one retry
\* notification (attempt index, maximum 3, delay, last error message), and
\* k failures followed by a 200 give the payload and exactly k notifications.
C9_EveryDelayNotified == NotifiedPerDelay

\* C9 as amended: the same, for a call that was given an onRetry callback;
\* a call without one schedules its delays and notifies nobody.
C9_NotifiedWithCallback ==
  /\ onRetry => NotifiedPerDelay
  /\ ~onRetry => notifications = <<>>

C9_Witness ==
  /\ onRetry /\ xpc = "returned" /\ xresult = "payload"
  /\ Len(outcomes) = 4 /\ Len(notifications) = 3
  /\ \A i \in 1..3 : outcomes[i] = [kind |-> "response", status |-> 503]

\* C10: the error thrown carries retriesExhausted exactly when 4 attempts
\* were made and none of them ended in a non-retryable response; an error
\* thrown for a non-retryable response does not carry it.
C10_ExhaustedFlag ==
  xpc = "threw"
    => /\ lastError.retriesExhausted
            <=> (Len(outcomes) = 4 /\ \A i \in 1..4 : ~IsNonRetryable(outcomes[i]))
       /\ IsNonRetryable(outcomes[Len(outcomes)]) => ~lastError.retriesExhausted

C10_Witness ==
  /\ xpc = "threw" /\ lastError.retriesExhausted /\ Len(outcomes) = 4
  /\ lastError.retryable = "true"

(***************************************************************************)
(* Claims about services/api.js (ApiSpec)                                  *)
(***************************************************************************)
\* C11: every error extractTranscript propagates carries its classification:
\* statuses 400, 401, 403, 404, 422 are marked non-retryable, statuses 429,
\* 500, 502, 503 retryable, a transport failure retryable; no error reaches
\* the caller without a retryable / non-retryable mark.
C11_PropagatedErrorsClassified ==
  xpc = "threw" =>
    LET o == outcomes[Len(outcomes)] IN
      /\ lastError.retryable \in {"true", "false"}
      /\ IsNonRetryable(o) => lastError.retryable = "false"
      /\ IsListedRetryable(o) => lastError.retryable = "true"
      /\ o.kind = "TypeError" => lastError.retryable = "true"

\* the attempts sent so far: one per loop iteration entered, less the one
\* whose token is still awaited
AttemptsSent == IF xpc = "idle" THEN 0 ELSE attempt + (IF xpc = "token" THEN 0 ELSE 1)

C13_StaleResultDiscarded ==
  [][\A s \in Subs :
       (s \in inflight /\ s \notin inflight' /\ s # live)
         => UNCHANGED <<transcript, allTranscripts, status, error>>]_vars

\* C14: after a successful submission every cached field derives from that
\* submission's result: the variants, the language list, the displayed
\* transcript, the video id, the metadata and the saved id are its own or
\* empty, and the selected language is one of its variants when it has any.
C14_StateFromThisResultOnly ==
  [][\A s \in Subs :
       (inflight = {s} /\ inflight' = {} /\ s = live /\ status = "loading"
          /\ status' = "success")
         => /\ transcript'.sub = s
            /\ allTranscripts' \in {NoCache} \cup {[sub |-> s, codes |-> k] : k \in KeyLists}
            /\ availableLanguages' = NoLanguages \/ availableLanguages'.sub = s
            /\ allTranscripts' = NoCache => availableLanguages' = NoLanguages
            /\ allTranscripts' # NoCache =>
                 /\ selectedLanguage' = transcript'.key
                 /\ HasKey(allTranscripts'.codes, selectedLanguage')
            /\ videoId' \in {0, s}
            /\ videoMetadata' \in {0, s}
            /\ transcriptId' \in {0, s}]_vars

\* selectLanguage as the claim words it: exact key, else the first key in
\* stored order that starts with the code, else nothing
SelectedKey(codes, code) ==
  IF \E i \in 1..Len(codes) : codes[i] = code THEN code
  ELSE FindStartingWith(codes, code)

\* C15: a language selection displays the variant stored under exactly the
\* requested code; else the first variant, in stored order, whose code
\* starts with it; else nothing (null), not the variant displayed before.
C15_SelectExactPrefixNull ==
  [][\A langCode \in LangCodes :
       handleLanguageChange(langCode)
         => LET key == SelectedKey(allTranscripts.codes, langCode) IN
              IF key = NoCode THEN transcript' = NoTranscript
              ELSE transcript'.sub = allTranscripts.sub /\ transcript'.key = key]_vars

\* C16: a language switch or a format change issues no network call and no
\* token refresh, and leaves the cached variants, the status and the error
\* unchanged.
C16_SwitchesTouchNoNetwork ==
  [][((\E langCode \in LangCodes : handleLanguageChange(langCode))
        \/ (\E newFormat \in Formats : handleFormatChange(newFormat)))
       => /\ UNCHANGED <<subCount, inflight>>
          /\ UNCHANGED <<tokenCalls, headers, posts, pc, isRefreshing>>
          /\ UNCHANGED <<allTranscripts, status, error>>]_vars

\* Spanish is displayed from a cache whose initial choice was English, in
\* the json format: both switches have acted
C16_Witness ==
  /\ status = "success"
  /\ allTranscripts.codes = <<ES, EN>>
  /\ selectedLanguage = ES
  /\ transcript.key = ES
  /\ format = "json"
  /\ subCount = 1

\* the default-language policy as the claim words it
PreferredLanguage(keys, default) ==
  IF \E i \in 1..Len(keys) : keys[i] = EN THEN EN
  ELSE IF \E i \in 1..Len(keys) : startsWith(keys[i], EN)
  THEN FindStartingWith(keys, EN)
  ELSE IF \E i \in 1..Len(keys) : keys[i] = default THEN default
  ELSE keys[1]

\* C17: for every new multi-language result the language selected first is
\* "en" if present; else the first code in response order starting with
\* "en"; else the server's default when it is one of the variants; else the
\* first variant; and it is always a key of the result's variants.
C17_InitialLanguageOrder ==
  [][\A r \in HookResponses :
       (r.shape = "segmented" /\ (HomeResolved(r) \/ \E s \in Subs : SubmitResolved(s, r)))
         => /\ selectedLanguage' = PreferredLanguage(r.transcripts, r.default_language)
            /\ HasKey(r.transcripts, selectedLanguage')]_vars

(***************************************************************************)
(* Claims about the submission handler (SubmitSpec)                        *)
(***************************************************************************)
\* extractTranscript calls the current submission has made
CallsMade == IF revision = "retrying" THEN calls ELSE 1

\* C18 as stated: a successful response without usable transcript content is
\* retried 2 more times, so the submission ends in the error state at the
\* third such response and not before, with 3 extraction calls at most; a
\* usable response on any call ends the submission in success.
C18_EmptyRetriedTwice ==
  [][/\ calls' <= 3
     /\ \A r \in SubmitResponses :
          (ExtractReturned(r) \/ \E s \in Subs : SingleResolved(s, r))
            => IF hasValidTranscriptData(r) THEN status' = "success"
               ELSE IF CallsMade = 3 THEN status' = "error"
               ELSE status' # "error" /\ error' = error]_vars

\* C18, amended: the handler with the empty-response loop (part_006) does
\* so; the single-request handler of hooks/useTranscriptExtractor.js ends
\* in the error state at the first unusable response (a falsy body leaves
\* it loading); a usable response ends either handler in success.
C18_EmptyRetriedByRetryingHandler ==
  [][/\ calls' <= 3
     /\ \A r \in SubmitResponses :
          /\ ExtractReturned(r)
               => IF hasValidTranscriptData(r) THEN status' = "success" /\ hpc' = "idle"
                  ELSE IF calls = 3
                  THEN status' = "error" /\ error' = "No transcript data returned"
                       /\ hpc' = "idle"
                  ELSE status' = status /\ error' = error /\ hpc' = "emptyDelay"
          /\ \A s \in Subs :
               SingleResolved(s, r)
                 => IF hasValidTranscriptData(r) THEN status' = "success"
                    ELSE IF r.shape = "null" THEN status' = status
                    ELSE status' = "error"]_vars

\* three empty responses have ended a submission in the error state
C18_Witness ==
  /\ revision = "retrying"
  /\ calls = 3
  /\ hpc = "idle"
  /\ status = "error"
  /\ error = "No transcript data returned"

\* a retry of the current submission is pending
RetryInFlight == xpc = "delaying" \/ hpc = "emptyDelay"

\* C19: while retries of a submission are in flight the state shows
\* progress and no error (status loading, error empty, retry info set); a
\* non-retryable failure and an exhausted retryable failure end it with the
\* error shown and retry info cleared; retry info is never set while the
\* status is not loading.
C19_RetriesShownAsProgress ==
  [][/\ RetryInFlight' =>
          status' = "loading" /\ error' = "null" /\ retryInfo' # NoRetryInfo
     /\ retryInfo' # NoRetryInfo => status' = "loading"
     /\ ExtractThrew =>
          status' = "error" /\ error' # "null" /\ retryInfo' = NoRetryInfo]_vars

(***************************************************************************)
(* C21: isTokenExpired(token, bufferSeconds) is true for every token whose *)
(* expiry claim is in the past and for every token that does not decode or *)
(* has no expiry claim, false for every token whose expiry lies more than  *)
(* bufferSeconds + 60 seconds ahead, and for a decodable token with an     *)
(* expiry it is true exactly when now >= expiry - buffer.  Checked at      *)
(* every clock value on tokens around the boundaries, for the two buffers  *)
(* the provider passes (the default 60 and 0).                             *)
(***************************************************************************)
ExpiryClaims(b) ==
  {0, now - 1, now, now + 1, now + b - 1, now + b, now + b + 1,
   now + b + 60, now + b + 61}

C21_ExpiryTest ==
  \A p \in {0, 1}, b \in {0, BufferSeconds} : \A e \in ExpiryClaims(b) :
    LET token == Token(p, e)
    IN  /\ (p = 0 \/ e = 0) => isTokenExpired(token, b)
        /\ (p # 0 /\ e # 0 /\ e <= now) => isTokenExpired(token, b)
        /\ (p # 0 /\ e > now + b + 60) => ~isTokenExpired(token, b)
        /\ (p # 0 /\ e # 0) => (isTokenExpired(token, b) <=> now >= e - b)

\* the init effect found a stored access token whose expiry is in the past
\* (isTokenExpired true: not restored) beside a refresh token that expires
\* later than now (isTokenExpired with buffer 0 false: restored)
C21_Witness ==
  /\ ~isLoading
  /\ lsAccess # Null /\ lsAccess.exp <= now
  /\ accessToken = Null
  /\ lsRefresh # Null /\ lsRefresh.exp > now
  /\ refreshTokenValue = lsRefresh

(***************************************************************************)
(* C22 as stated: the three probes never reject, and on a timeout, a       *)
(* transport failure, a non-OK status or an undecodable body each returns  *)
(* its failed result (connected / healthy / authenticated false).          *)
(***************************************************************************)
ProbeFailed(o) ==
  \/ o.kind \in {"TimeoutError", "TypeError", "SyntaxError"}
  \/ o.kind = "response" /\ ~responseOk(o.status)

C22_ProbesFailOnEveryFailure ==
  \A p \in Probes :
    /\ probeResult[p].settled # "rejected"
    /\ probePc[p] = "resolved" /\ ProbeFailed(probeOutcome[p]) => ~probeResult[p].ok

(***************************************************************************)
(* C22 amended: every started probe settles, and it never rejects; a       *)
(* timeout (5 s), a transport failure or an undecodable body gives the     *)
(* failed result; checkHealth also fails on a non-OK status;               *)
(* checkConnectivity reports connected with the status for every response  *)
(* and checkApiAuth reports authenticated for every status but 401.        *)
(***************************************************************************)
ProbeResultRight(p) ==
  LET o == probeOutcome[p]
      r == probeResult[p]
  IN  /\ o.kind \in {"TimeoutError", "TypeError", "SyntaxError"} =>
           ~r.ok /\ r.error = o.kind
      /\ o.kind = "TimeoutError" => probeElapsed[p] >= probeTimeout
      /\ p = "checkHealth" =>
           (r.ok <=> o.kind = "body") /\ (o.kind = "response" => ~responseOk(o.status))
      /\ p = "checkConnectivity" /\ o.kind = "response" => r.ok /\ r.status = o.status
      /\ p = "checkApiAuth" /\ o.kind = "response" => (r.ok <=> o.status # 401)

C22_ProbesAlwaysResolve ==
  /\ [](\A p \in Probes :
          /\ probeResult[p].settled # "rejected"
          /\ probePc[p] = "resolved" =>
               probeResult[p].settled = "resolved" /\ ProbeResultRight(p))
  /\ \A p \in Probes : probePc[p] \in {"fetching", "reading"} ~> probePc[p] = "resolved"

\* checkHealth caught an undecodable body, checkConnectivity timed out and
\* checkApiAuth got a 401
C22_Witness ==
  /\ probePc = [p \in Probes |-> "resolved"]
  /\ probeOutcome["checkHealth"].kind = "SyntaxError"
  /\ ~probeResult["checkHealth"].ok
  /\ probeOutcome["checkConnectivity"].kind = "TimeoutError"
  /\ ~probeResult["checkConnectivity"].ok
  /\ probeOutcome["checkApiAuth"] = [kind |-> "response", status |-> 401]
  /\ ~probeResult["checkApiAuth"].ok

(***************************************************************************)
(* C23 as stated: for every segment list, the empty one included,          *)
(* segmentsToSrt returns the cues "{i}\n{start} --> {end}\n{text}\n" for   *)
(* i = 1..n in segment order, end being the segment's end when present and *)
(* start + duration otherwise, and segmentsToVtt returns "WEBVTT\n\n"      *)
(* followed by the same cues with '.' as the separator of the times.       *)
(***************************************************************************)
CueEnd(seg) == IF seg.end # Undefined THEN seg.end ELSE seg.start + seg.duration

CueBody(seg, forVtt) ==
  formatTime(seg.start, forVtt) \o <<" ", "-", "-", ">", " ">>
    \o formatTime(CueEnd(seg), forVtt) \o <<"\n">> \o seg.text \o <<"\n">>

NumberedCues(segments, forVtt) ==
  Join([i \in 1..Len(segments) |->
          Digits(i) \o <<"\n">> \o CueBody(segments[i], forVtt)], <<"\n">>)

WebVttHeader == <<"W", "E", "B", "V", "T", "T", "\n", "\n">>

SrtAsStated ==
  fmtOp = "segmentsToSrt" =>
    /\ fmtOut = NumberedCues(fmtSegments, FALSE)
    /\ fmtSegments = <<>> => fmtOut = <<>>

IsDigit(c) == \E d \in 1..10 : DigitChars[d] = c

DigitValue(c) == (CHOOSE d \in 1..10 : DigitChars[d] = c) - 1

RECURSIVE NumberOf(_)
NumberOf(digits) ==
  IF Len(digits) = 0 THEN 0
  ELSE NumberOf(SubSeq(digits, 1, Len(digits) - 1)) * 10
         + DigitValue(digits[Len(digits)])

AllDigits(field) == \A i \in 1..Len(field) : IsDigit(field[i])

\* the time in ms, rounded
RoundedMs(seconds) ==
  (seconds \div Resolution) * 1000 + Round((seconds % Resolution) * 1000, Resolution)

C24_TimeRendered ==
  fmtOp = "formatTime" =>
    LET n == Len(fmtOut)
        hh == SubSeq(fmtOut, 1, n - 10)
        mm == SubSeq(fmtOut, n - 8, n - 7)
        ss == SubSeq(fmtOut, n - 5, n - 4)
        mmm == SubSeq(fmtOut, n - 2, n)
    IN  /\ n >= 12
        /\ AllDigits(hh) /\ AllDigits(mm) /\ AllDigits(ss) /\ AllDigits(mmm)
        /\ fmtOut[n - 9] = ":" /\ fmtOut[n - 6] = ":"
        /\ fmtOut[n - 3] = (IF fmtArg.forVtt THEN "." ELSE ",")
        /\ NumberOf(mm) <= 59 /\ NumberOf(ss) <= 59
        /\ ((NumberOf(hh) * 60 + NumberOf(mm)) * 60 + NumberOf(ss)) * 1000
             + NumberOf(mmm) = RoundedMs(fmtArg.seconds)

(***************************************************************************)
(* C25: segmentsToParagraphs closes a paragraph after a segment only when  *)
(* the accumulated paragraph text ends in sentence-terminal punctuation    *)
(* and either the gap to the next segment's start exceeds 2 seconds or the *)
(* paragraph holds at least 4 sentence-ending marks; the rest is flushed   *)
(* as the last paragraph, so every segment text appears exactly once and   *)
(* in order.  Segments that each end a sentence with gaps over 2 s give    *)
(* one paragraph per segment; gap-free segments with fewer than 4          *)
(* terminators in total give a single paragraph; no segments give none.    *)
(***************************************************************************)
\* the consecutive groups of 1..n that the cuts (last index of a closed
\* paragraph) make
GroupsOfCuts(n, cuts) ==
  LET ends == cuts \cup {n}
      first(e) == IF \E c \in ends : c < e
                  THEN (CHOOSE c \in ends : c < e /\ \A d \in ends : d < e => d <= c) + 1
                  ELSE 1
  IN  {[first |-> first(e), last |-> e] : e \in ends}

GroupText(segments, g) ==
  Join([k \in 1..(g.last - g.first + 1) |-> trim(segments[g.first + k - 1].text)],
       <<" ">>)

MarkCount(text) == Cardinality({i \in 1..Len(text) : text[i] \in SentenceMarks})

GapOver2s(segments, i) ==
  i < Len(segments) /\ segments[i + 1].start - CueEnd(segments[i]) > 2 * Resolution

\* the paragraphs are the texts of the groups the cuts make, in order
CutsGive(segments, cuts, paragraphs) ==
  LET groups == GroupsOfCuts(Len(segments), cuts)
  IN  /\ Len(paragraphs) = Cardinality(groups)
      /\ \A g \in groups :
           paragraphs[Cardinality({h \in groups : h.last <= g.last})]
             = GroupText(segments, g)

\* every cut closes a paragraph whose text ends a sentence, before a gap of
\* more than 2 s or with 4 marks or more in the paragraph
CutsAllowed(segments, cuts) ==
  \A g \in GroupsOfCuts(Len(segments), cuts) :
    g.last \in cuts =>
      /\ endsWithSentence(GroupText(segments, g))
      /\ GapOver2s(segments, g.last) \/ MarkCount(GroupText(segments, g)) >= 4

C25_ParagraphBreaks ==
  fmtOp = "segmentsToParagraphs" =>
    LET n == Len(fmtSegments)
        texts == [i \in 1..n |-> trim(fmtSegments[i].text)]
    IN  /\ n = 0 => fmtOut = <<>>
        /\ n > 0 =>
             \E cuts \in SUBSET (1..(n - 1)) :
               CutsGive(fmtSegments, cuts, fmtOut) /\ CutsAllowed(fmtSegments, cuts)
        /\ Join(fmtOut, <<" ">>) = Join(texts, <<" ">>)
        /\ (\A i \in 1..n :
              endsWithSentence(texts[i]) /\ (i < n => GapOver2s(fmtSegments, i)))
             => fmtOut = texts
        /\ (/\ n > 0
            /\ \A i \in 1..n : ~GapOver2s(fmtSegments, i)
            /\ MarkCount(Join(texts, <<" ">>)) < 4)
             => Len(fmtOut) = 1

\* three segments without a gap over 2 s, closed into two paragraphs by the
\* count of sentence marks
C25_Witness ==
  /\ fmtOp = "segmentsToParagraphs"
  /\ Len(fmtSegments) = 3
  /\ \A i \in 1..3 : ~GapOver2s(fmtSegments, i)
  /\ Len(fmtOut) = 2

(***************************************************************************)
(* C26: after logout the credential pair stays absent, in memory and in    *)
(* localStorage, until the next login or register: a refresh started       *)
(* before the logout that completes after it neither stores nor returns    *)
(* tokens.                                                                 *)
(***************************************************************************)
C26_LogoutKeepsPairAbsent ==
  loggedOut =>
    /\ accessToken = Null /\ refreshTokenValue = Null
    /\ lsAccess = Null /\ lsRefresh = Null
    /\ \A c \in Callers : pc[c] = "returned" /\ posts[c] = 1 => result[c] = Null

(***************************************************************************)
(* C27: every submission eventually leaves the 'loading' status and ends   *)
(* in 'success' or 'error', whatever the extraction call settles with: a   *)
(* thrown error, a usable result, an empty result, or a successful         *)
(* response whose decoded body is null.  (A reset or a URL change also     *)
(* ends the loading status; the formula asks only that loading ends.)      *)
(***************************************************************************)
C27_LoadingEnds == (status = "loading") ~> (status # "loading")

(***************************************************************************)
(* C28: whenever a submission ends in 'success' on a multi-language        *)
(* result, the displayed transcript is a variant with at least one         *)
(* segment: the validity check and the choice of the language never        *)
(* combine to display a variant without segments while another has some.   *)
(***************************************************************************)
C28_DisplayedVariantHasSegments ==
  [][\A s \in Subs, r \in HookResponses :
       SubmitResolved(s, r) /\ Len(r.transcripts) > 0 /\ status' = "success"
         => transcript'.key \in r.segments]_vars

(***************************************************************************)
(* C29: after any sequence of submissions and language changes, whenever   *)
(* cached variants exist the displayed transcript is the variant of the    *)
(* cache that the selected code resolves to (exact key, else prefix): the  *)
(* selected language never names one language while the transcript of      *)
(* another is displayed.                                                   *)
(***************************************************************************)
C29_SelectedIdentifiesDisplayed ==
  allTranscripts # NoCache =>
    /\ transcript.sub = allTranscripts.sub
    /\ transcript.key = SelectedKey(allTranscripts.codes, selectedLanguage)

(***************************************************************************)
(* C30: if getAccessToken fails during an extraction call (the refresh was *)
(* rejected and the credentials were cleared), the extraction request is   *)
(* still sent, with the API key and without an Authorization header, and   *)
(* the caller of extractTranscript receives the outcome of that request:   *)
(* the payload, or the error of the response or of the transport, and no   *)
(* error of the credentials.                                               *)
(***************************************************************************)
C30_TokenFailureStillExtracts ==
  [][/\ (xpc = "token" /\ pc[Extractor] = "refreshing" /\ pc'[Extractor] = "threw")
          => /\ accessToken' = Null /\ refreshTokenValue' = Null
             /\ lsAccess' = Null /\ lsRefresh' = Null
             /\ xpc' = "token"
     /\ (xpc = "token" /\ pc[Extractor] = "threw" /\ xpc' # "token")
          => /\ xpc' = "requesting"
             /\ tokenFailed'
             /\ headers' = Append(headers, [apiKey |-> TRUE, authorization |-> Null])
             /\ lastError' = NoError
     /\ (tokenFailed /\ xpc = "requesting" /\ xpc' # "requesting")
          => \/ /\ xpc' = "returned"
                /\ xresult' = "payload"
                /\ outcomes' = Append(outcomes, Ok200)
                /\ lastError' = NoError
             \/ \E o \in FailOutcomes :
                  /\ xpc' = "threw"
                  /\ outcomes' = Append(outcomes, o)
                  /\ lastError' = apiCaughtError(apiMakeRequest(o))
     /\ (xpc' \in {"returned", "threw"} /\ xpc' # xpc) => xpc = "requesting"]_vars

\* the refresh of the extractor's token call was rejected, the request went
\* out with the API key alone and the caller holds the payload
C30_Witness ==
  /\ withAuth
  /\ tokenFailed
  /\ tokenCalls = 1
  /\ headers = <<[apiKey |-> TRUE, authorization |-> Null]>>
  /\ xpc = "returned"
  /\ xresult = "payload"
  /\ lastError = NoError
  /\ lsAccess = Null /\ lsRefresh = Null
====
